---- MODULE Spec2Model ----
(***************************************************************************)
(* Model of the retrieval engine of spfx-sample:                           *)
(*   - getCommandHandler (retrieve): strategy selection, destination       *)
(*     handling, fetch, post-processing, finalize;                         *)
(*   - downloadSampleViaGitHubSubtree (downloadSubtree): the three tree    *)
(*     lookups and the semaphore-bounded parallel file downloads;          *)
(*   - sparseCloneInto / fetchSampleViaSparseGitExtract: the git steps.    *)
(* A step of the model is what the single JavaScript thread runs between   *)
(* two awaits, together with the promise continuations (microtasks) that   *)
(* run before the next external event.                                     *)
(***************************************************************************)
EXTENDS Integers, Sequences, FiniteSets, TLC

\* ------------------------------------------------------------------ bounds
\* Largest number of file-kind entries a simulated recursive listing holds.
MaxFiles == 3
\* Largest explicit concurrency a direct caller of downloadSubtree passes.
MaxConc == 2

\* ------------------------------------------------------- program constants
\* const concurrency = opts.concurrency ?? 8;
DEFAULT_CONCURRENCY == 8

\* An absent optional argument (opts.concurrency, opts.signal) is the empty
\* tuple and a given one the 1-tuple of its value.
Undefined == << >>
Some(v) == << v >>

\* const min = { major: 2, minor: 25, patch: 0 };  (versions are triples
\* << major, minor, patch >>)
MinGit == << 2, 25, 0 >>
Null == << >>

\* ------------------------------------------------------------ input spaces
\* What `git --version` does on the machine: the binary cannot be invoked
\* (runs = FALSE), or it exits 0 and prints `stdout`.
GitEnvs ==
    { [runs |-> FALSE, stdout |-> << "" >>],
      [runs |-> TRUE,  stdout |-> << "notaversion" >>],
      [runs |-> TRUE,  stdout |-> << "git version", 2, 24, 9 >>],
      [runs |-> TRUE,  stdout |-> << "git version", 2, 25, 0 >>] }

\* The destination before the call: missing, a plain file, an empty directory
\* or a directory holding one previous entry.
NoDest == [kind |-> "absent", entries |-> {}]
EmptyDir == [kind |-> "dir", entries |-> {}]
DestStates ==
    { NoDest,
      [kind |-> "file", entries |-> {}],
      EmptyDir,
      [kind |-> "dir", entries |-> {"existing.txt"}] }

\* Repository-relative names of the file entries of a sample listing.
AllPaths == << "a", "b", "c", "d", "e", "f" >>

Methods == {"auto", "git", "api", "bad"}
Modes == {"extract", "repo", "bad"}
NewIds == {"none", "valid", "invalid"}

SampleFolder == "react-hello-world"

\* Results and failures: a kind and, for a file download's failure, the file.
Res(kind, path) == [kind |-> kind, path |-> path]
Pending == Res("pending", "")
Ok == Res("ok", "")
Fail(kind) == Res(kind, "")

\* Events of the trace.
Spawn(cmd) == [op |-> "spawn", arg |-> cmd]
GetTree(treeish) == [op |-> "tree", arg |-> treeish]

\* const fullRepoPath = `samples/${sampleFolder}/${rel}`;
\* const rawUrl = `https://raw.githubusercontent.com/${owner}/${repo}/` +
\*     `${encodeURIComponent(ref)}/${fullRepoPath}`;
rawUrl_Rel(rel) == << "https://raw.githubusercontent.com", "owner", "repo", "ref", rel >>
rawUrl(rel) ==
    << "https://raw.githubusercontent.com", "owner", "repo", "ref",
       "samples", SampleFolder, rel >>

\* fetch(rawUrl, ...) of the file entry whose path in the listing is rel.
GetRaw(rel) == [op |-> "raw", arg |-> rawUrl(rel)]

\* -------------------------------------------------------------------- state
VARIABLES
    input,      \* the arguments of the call and the machine's git
    pc,         \* position of getCommandHandler
    chosen,     \* the resolved strategy ("none" before it is resolved)
    outcome,    \* result of getCommandHandler: "pending", "ok" or the failure
    dest,       \* the destination directory on disk
    tmpRoot,    \* whether the temporary root of the extract variant exists
    gitStep,    \* the git step in flight (0: none), in a sparse retrieval
    exits,      \* how the sparse steps settled so far ended, in order
    rmTmp,      \* the removals of the temporary root attempted (TRUE: removed)
    calls,      \* the operations getCommandHandler has invoked, in order
    trace,      \* subprocesses spawned and network requests issued, in order
    dl_pc,      \* position of downloadSampleViaGitHubSubtree
    trees,      \* the responses of the tree lookups settled so far
    blobs,      \* the file-kind entries of the recursive listing, in order
    task,       \* state of each file download
    running,    \* the semaphore's counter
    queue,      \* the semaphore's queue of waiting tasks (indices into blobs)
    done,       \* the download's counter of completed files
    progress,   \* the calls made to onProgress, in order
    result,     \* result of downloadSubtree: "pending", "ok" or the failure
    aborted,    \* the cancellation signal's aborted flag
    abortedAt,  \* what was going on when the signal was cancelled
    firstFailed, \* the file download that was the first to fail (0: none)
    rn_in,      \* the arguments of the identity rewrite and the project before it
    rn_pc,      \* position of postProcessProject / renameSpfxProject
    opts,       \* { rename, newId } as handed to renameSpfxProject
    project,    \* the well-known files of the project directory
    oldName,    \* renameSpfxProject's oldName (pkg?.name)
    written,    \* the project files written so far
    rn_out,     \* result of the rewrite: "pending", "ok" or the failure
    applied,    \* the project as each completed renameSpfxProject call left it
    u_in,       \* the arguments of a call of one of the utility functions
    u_pc,       \* position of that call
    u_out       \* what the call has computed so far

vars == << input, pc, chosen, outcome, dest, tmpRoot, gitStep, exits, rmTmp,
           calls, trace, dl_pc,
           trees, blobs, task, running, queue, done, progress, result,
           aborted, abortedAt, firstFailed, rn_in, rn_pc, opts, project,
           oldName, written, rn_out, applied, u_in, u_pc, u_out >>

utilVars == << u_in, u_pc, u_out >>

\* What a retrieval or a download leaves alone: the rewrite and the utility
\* calls.
renameVars == << rn_in, rn_pc, opts, project, oldName, written, rn_out, applied,
                utilVars >>

retrieveVars == << pc, chosen, outcome, tmpRoot, gitStep, exits, rmTmp, calls >>
downloadVars == << dl_pc, trees, blobs, task, running, queue, done,
                   progress, result, aborted, abortedAt, firstFailed >>

\* ------------------------------------------------------------ pure helpers
\* function assertMode(m)
assertMode(m) ==
    IF m = Undefined THEN "extract"
    ELSE IF m[1] \in {"extract", "repo"} THEN m[1]
    ELSE "throw"

\* function assertMethod(m)
assertMethod(m) ==
    IF m = Undefined THEN "auto"
    ELSE IF m[1] \in {"auto", "git", "api"} THEN m[1]
    ELSE "throw"

\* function parseGitVersion(output): the three numbers that follow
\* "git version" (in any case), whatever comes after them, or null. The
\* output is the text "git version", then the numbers it is followed by,
\* then the rest.
parseGitVersion(output) ==
    IF Len(output) >= 4 /\ output[1] \in {"git version", "GIT VERSION"}
    THEN << output[2], output[3], output[4] >>
    ELSE Null

\* function versionGte(v, min)
versionGte_Strict(v, min) ==
    IF v[1] # min[1] THEN v[1] > min[1]
    ELSE IF v[2] # min[2] THEN v[2] > min[2]
    ELSE v[3] > min[3]
versionGte(v, min) ==
    IF v[1] # min[1] THEN v[1] > min[1]
    ELSE IF v[2] # min[2] THEN v[2] > min[2]
    ELSE v[3] >= min[3]

\* async function isGitAvailable(): run("git", ["--version"]) resolved.
isGitAvailable(git) == git.runs

\* async function ensureGit(): "ok" or the failure it throws.
ensureGit_FailClosed(git) ==
    IF ~git.runs THEN "ToolNotFound"
    ELSE IF parseGitVersion(git.stdout) = Null THEN "ToolTooOld"
    ELSE IF ~versionGte(parseGitVersion(git.stdout), MinGit) THEN "ToolTooOld"
    ELSE "ok"
ensureGit(git) ==
    IF ~git.runs THEN "ToolNotFound"
    ELSE LET v == parseGitVersion(git.stdout) IN
         IF v = Null THEN "ok"
         ELSE IF ~versionGte(v, MinGit) THEN "ToolTooOld"
         ELSE "ok"

\* const chosen = method === "auto" ? gitAvailable ? "git" : "api" : method;
Chosen_GitFirst(method, gitAvailable) ==
    IF method = "auto" THEN "git" ELSE method
Chosen(method, gitAvailable) ==
    IF method = "auto" THEN (IF gitAvailable THEN "git" ELSE "api") ELSE method

\* if (chosen === "api" && mode === "repo") throw ...
ModeMethodConflict_AnyMode(ch, mode) == ch = "api"
ModeMethodConflict_Never(ch, mode) == FALSE
ModeMethodConflict(ch, mode) == ch = "api" /\ mode = "repo"

\* async function pathExists(p)
pathExists(d) == d.kind # "absent"

\* async function isDirNonEmpty(p): readdir of a missing path or of a plain
\* file throws, which is caught and gives false.
isDirNonEmpty_Never(d) == FALSE
isDirNonEmpty(d) == d.kind = "dir" /\ d.entries # {}

\* fs.mkdir(p, { recursive: true }): creates a missing directory, keeps an
\* existing one, and fails (EEXIST) on a plain file.
MkdirOk(d) == d.kind # "file"
Mkdir(d) == IF d.kind = "absent" THEN EmptyDir ELSE d

\* fs.rm(destDir, { recursive: true, force: true }), when it succeeds.
RmRecursive_Kept(d) == d
RmRecursive(d) == NoDest

\* The arguments getCommandHandler was called with.
Mode == assertMode(input.mode)
Method == assertMethod(input.method)

\* const concurrency = opts.concurrency ?? 8; getCommandHandler passes 8.
Concurrency ==
    IF input.entry = "retrieve" THEN 8
    ELSE IF input.concurrency = Undefined THEN DEFAULT_CONCURRENCY
    ELSE input.concurrency[1]

\* ------------------------------------------------- remote API responses
\* An entry of a tree listing: { path, type: "blob" | "tree", sha }.
Entry(path, type, sha) == [path |-> path, type |-> type, sha |-> sha]

\* A response of the tree-lookup endpoint: the HTTP status, whether the
\* X-RateLimit-Remaining header reads "0", whether the body parses as JSON,
\* whether the parsed body carries a message, and the listing.
Response(status, rl0, json, message, tree, truncated) ==
    [status |-> status, rl0 |-> rl0, json |-> json, message |-> message,
     tree |-> tree, truncated |-> truncated]
OkResponse(tree, truncated) == Response(200, FALSE, TRUE, FALSE, tree, truncated)

ErrorResponses ==
    { res \in { Response(st, r, j, m, << >>, FALSE) :
                  st \in {403, 500}, r \in BOOLEAN, j \in BOOLEAN, m \in BOOLEAN } :
        res.message => res.json }

RootListings ==
    { << >>,
      << Entry("samples", "blob", "sha-file") >>,
      << Entry("Samples", "tree", "sha-other") >>,
      << Entry("README.md", "blob", "sha-file"),
         Entry("samples", "tree", "sha-samples") >> }

SamplesListings ==
    { << >>,
      << Entry(SampleFolder, "blob", "sha-file") >>,
      << Entry("react-hello", "tree", "sha-other") >>,
      << Entry("react-hello", "tree", "sha-other"),
         Entry(SampleFolder, "tree", "sha-sample") >> }

\* A recursive listing with k files: the first file, then (from two files
\* on) a directory entry and the files under it; without files, an empty
\* listing or a lone directory entry.
FilesListing(k) ==
    IF k = 0 THEN << >>
    ELSE << Entry(AllPaths[1], "blob", "sha-file") >> \o
         (IF k = 1 THEN << >>
          ELSE << Entry("src", "tree", "sha-dir") >> \o
               [i \in 1..(k - 1) |-> Entry(AllPaths[i + 1], "blob", "sha-file")])

SampleListings ==
    { FilesListing(k) : k \in 0..MaxFiles } \cup
    { << Entry("src", "tree", "sha-dir") >> }

ResponsesAt(stage) ==
    ErrorResponses \cup
    IF stage = "root"
    THEN { OkResponse(t, FALSE) : t \in RootListings } \cup
         { Response(200, FALSE, TRUE, TRUE, << >>, FALSE) }
    ELSE IF stage = "samples"
    THEN { OkResponse(t, FALSE) : t \in SamplesListings }
    ELSE { OkResponse(t, tr) : t \in SampleListings, tr \in BOOLEAN }

\* async function fetchJson(url): "ok" or the failure it throws. The body is
\* parsed (res.json()) before the status is looked at.
fetchJson_StatusFirst(res) ==
    IF ~(res.status \in 200..299)
    THEN IF res.status = 403 /\ res.rl0 THEN "RateLimited" ELSE "RemoteApiError"
    ELSE IF ~res.json THEN "SyntaxError"
    ELSE "ok"
fetchJson(res) ==
    IF ~res.json THEN "SyntaxError"
    ELSE IF ~(res.status \in 200..299)
    THEN IF res.status = 403 /\ res.rl0 THEN "RateLimited" ELSE "RemoteApiError"
    ELSE "ok"

\* `GitHub API error: ${data?.message ?? `${res.status} ${res.statusText}`}`:
\* what the RemoteApiError carries.
ErrorMessage(res) ==
    IF res.message THEN "data.message" ELSE "status statusText"

\* The error a failed fetchTree rejects with.
FetchError(res) ==
    Res(fetchJson(res),
        IF fetchJson(res) = "RemoteApiError" THEN ErrorMessage(res) ELSE "")

\* tree.find(t => t.type === "tree" && t.path === name): the index of the
\* first such entry, 0 when there is none.
FindTree(tree, name) ==
    LET hits == { i \in 1..Len(tree) : tree[i].type = "tree" /\ tree[i].path = name }
    IN  IF hits = {} THEN 0 ELSE CHOOSE i \in hits : \A j \in hits : i <= j

IsBlob_Any(t) == TRUE
IsBlob(t) == t.type = "blob"

\* sample.tree.filter(t => t.type === "blob")
Blobs(tree) == SelectSeq(tree, IsBlob)

\* ------------------------------------------------ the identity rewrite: data
\* Strings are sequences of characters. The bound on the texts the rewrite
\* works on: how many times the previous name occurs in a text.
MaxOcc == 2

\* The characters a regular expression gives a meaning to, as listed in
\* /[.*+?^${}()|[\]\\]/.
MetaChars ==
    {".", "*", "+", "?", "^", "$", "{", "}", "(", ")", "|", "[", "]", "\\"}

\* oldName.replace(/[.*+?^${}()|[\]\\]/g, "\\$&"): every such character gets
\* a backslash in front.
RECURSIVE escapeRegExp(_)
escapeRegExp(s) ==
    IF s = << >> THEN << >>
    ELSE (IF Head(s) \in MetaChars THEN << "\\", Head(s) >> ELSE << Head(s) >>)
         \o escapeRegExp(Tail(s))

\* new RegExp(source, "g"): the source as a sequence of atoms. A backslash
\* makes the next character a literal, a dot matches any character, every
\* other character of the modelled names is a literal.
Atom(kind, c) == [kind |-> kind, c |-> c]
RECURSIVE RegExpOf(_)
RegExpOf(src) ==
    IF src = << >> THEN << >>
    ELSE IF Head(src) = "\\" /\ Len(src) >= 2
    THEN << Atom("lit", src[2]) >> \o RegExpOf(Tail(Tail(src)))
    ELSE IF Head(src) = "."
    THEN << Atom("any", ".") >> \o RegExpOf(Tail(src))
    ELSE << Atom("lit", Head(src)) >> \o RegExpOf(Tail(src))

\* The expression matches the text at position i.
MatchAt(text, i, re) ==
    /\ i + Len(re) - 1 <= Len(text)
    /\ \A j \in 1..Len(re) : re[j].kind = "any" \/ text[i + j - 1] = re[j].c

\* The replacement string of String.prototype.replace, expanded for one
\* match: "$$" inserts a "$", "$&" inserts the matched text; a "$" in front
\* of anything else stands for itself.
RECURSIVE Expand(_, _)
Expand(repl, matched) ==
    IF repl = << >> THEN << >>
    ELSE IF Head(repl) = "$" /\ Len(repl) >= 2 /\ repl[2] = "$"
    THEN << "$" >> \o Expand(Tail(Tail(repl)), matched)
    ELSE IF Head(repl) = "$" /\ Len(repl) >= 2 /\ repl[2] = "&"
    THEN matched \o Expand(Tail(Tail(repl)), matched)
    ELSE << Head(repl) >> \o Expand(Tail(repl), matched)

\* text.replace(re, repl) with a global expression that is not empty: the
\* matches are found from left to right, without overlap.
RECURSIVE ReplaceFrom(_, _, _, _)
ReplaceFrom(text, i, re, repl) ==
    IF i > Len(text) THEN << >>
    ELSE IF MatchAt(text, i, re)
    THEN Expand(repl, SubSeq(text, i, i + Len(re) - 1))
         \o ReplaceFrom(text, i + Len(re), re, repl)
    ELSE << text[i] >> \o ReplaceFrom(text, i + 1, re, repl)

\* existing.replace(new RegExp(escape(oldName), "g"), opts.rename)
ReplaceName(text, old, new) ==
    ReplaceFrom(text, 1, RegExpOf(escapeRegExp(old)), new)

\* String.prototype.trim, for the blank.
RECURSIVE TrimStart(_)
TrimStart(s) ==
    IF s # << >> /\ Head(s) = " " THEN TrimStart(Tail(s)) ELSE s
RECURSIVE TrimEnd(_)
TrimEnd(s) ==
    IF s # << >> /\ s[Len(s)] = " " THEN TrimEnd(SubSeq(s, 1, Len(s) - 1)) ELSE s
Trim(s) == TrimEnd(TrimStart(s))

\* JavaScript's truthiness of an optional string: defined and not empty.
Truthy(o) == o # Undefined /\ o[1] # << >>

\* An identifier string, by what isGuid looks at: the lengths of its
\* dash-separated groups, whether every character of them is a hex digit,
\* the first digit of the third group and the first of the fourth, and
\* whether blanks surround it. `tag` tells identifiers apart.
Identifier(tag, lens, hex, ver, var, padded) ==
    [tag |-> tag, lens |-> lens, hex |-> hex, ver |-> ver, var |-> var,
     padded |-> padded]
GuidShape == << 8, 4, 4, 4, 12 >>
OldId == Identifier("old", GuidShape, TRUE, 4, 8, FALSE)
NewId == Identifier("new", GuidShape, TRUE, 4, 10, FALSE)
RandomId == Identifier("random", GuidShape, TRUE, 4, 9, FALSE)
PaddedId == Identifier("new", GuidShape, TRUE, 4, 10, TRUE)
NotAGuid == Identifier("not-a-guid", << 3, 1, 4 >>, FALSE, 0, 0, FALSE)
NilId == Identifier("nil", GuidShape, TRUE, 0, 0, FALSE)
NotHexId == Identifier("not-hex", GuidShape, FALSE, 4, 8, FALSE)

\* v.trim(), for an identifier.
TrimId(v) == [v EXCEPT !.padded = FALSE]

\* /^[0-9a-f]{8}-[0-9a-f]{4}-[1-5][0-9a-f]{3}-[89ab][0-9a-f]{3}-[0-9a-f]{12}$/i
isGuid_Any(v) == TRUE
isGuid(v) ==
    /\ ~v.padded
    /\ v.lens = GuidShape
    /\ v.hex
    /\ v.ver \in 1..5
    /\ v.var \in 8..11

\* The names of the modelled projects.
Ab == << "a", "b" >>
ADotB == << "a", ".", "b" >>
OldNames == { Ab, ADotB }

\* A text in which the name occurs k times, between other characters; "axb"
\* is what an unescaped "a.b" would match as well.
RECURSIVE Occurrences(_, _)
Occurrences(name, k) ==
    IF k = 0 THEN << "a", "x", "b" >>
    ELSE name \o << " ", "S" >> \o (IF k = 1 THEN << >> ELSE Occurrences(name, k - 1))
DollarText == << "$", "$", " ", "a", "b" >>
Texts == { Occurrences(n, k) : n \in OldNames, k \in 0..MaxOcc } \cup { DollarText }

\* The new names a caller may pass: plain, containing a previous name,
\* containing "$" sequences, surrounded by blanks, blank, empty.
NewNames ==
    { << "n" >>, << "n", "a", "b" >>, << "n", "$", "&" >>, << "$", "$" >>,
      << " ", "n", " " >>, << " " >>, << >> }

\* The well-known files. A JSON file is absent, unparsable ("bad") or holds
\* an object ("json"); `pretty` tells whether its text is what
\* writeJsonPretty produces; a field that is no string is Undefined.
PkgFile(st, name) == [st |-> st, pretty |-> FALSE, name |-> name]
YoFile(st, gen, libraryName, solutionName, libraryId) ==
    [st |-> st, pretty |-> FALSE, gen |-> gen, libraryName |-> libraryName,
     solutionName |-> solutionName, libraryId |-> libraryId]
PsFile(st, solution, name, id) ==
    [st |-> st, pretty |-> FALSE, solution |-> solution, name |-> name, id |-> id]
DazFile(st, container) == [st |-> st, pretty |-> FALSE, container |-> container]
ReadmeFile(st, text) == [st |-> st, text |-> text]

PkgFiles ==
    { PkgFile("absent", Undefined), PkgFile("bad", Undefined),
      PkgFile("json", Undefined) } \cup
    { PkgFile("json", Some(n)) : n \in OldNames }
YoFiles ==
    { YoFile("absent", FALSE, Undefined, Undefined, Undefined),
      YoFile("bad", FALSE, Undefined, Undefined, Undefined),
      YoFile("json", FALSE, Undefined, Undefined, Undefined),
      YoFile("json", TRUE, Undefined, Undefined, Undefined),
      YoFile("json", TRUE, Some(Ab), Some(Occurrences(Ab, 1)), Some(OldId)) }
PsFiles ==
    { PsFile("absent", FALSE, Undefined, Undefined),
      PsFile("bad", FALSE, Undefined, Undefined),
      PsFile("json", FALSE, Undefined, Undefined),
      PsFile("json", TRUE, Undefined, Undefined) } \cup
    { PsFile("json", TRUE, Some(t), Some(OldId)) : t \in Texts }
DazFiles ==
    { DazFile("absent", Undefined), DazFile("bad", Undefined),
      DazFile("json", Undefined), DazFile("json", Some(Ab)) }
ReadmeFiles ==
    { ReadmeFile("absent", << >>) } \cup { ReadmeFile("text", t) : t \in Texts }

\* The project of the sample a retrieval fetches.
SampleProject ==
    [ pkg |-> PkgFile("json", Some(Ab)),
      yo |-> YoFile("json", TRUE, Some(Ab), Some(Occurrences(Ab, 1)), Some(OldId)),
      ps |-> PsFile("json", TRUE, Some(Occurrences(Ab, 1)), Some(OldId)),
      daz |-> DazFile("json", Some(Ab)),
      readme |-> ReadmeFile("text", Occurrences(Ab, 1)) ]

\* The projects the rewrite is applied to: every combination of package
\* descriptor, manifest and readme beside the sample's other files, every
\* combination of package descriptor, generator config and deployment
\* config beside the sample's other files, and a directory that holds none
\* of the files.
Projects ==
    { [SampleProject EXCEPT !.pkg = p, !.ps = s, !.readme = r] :
        p \in PkgFiles, s \in PsFiles, r \in ReadmeFiles } \cup
    { [SampleProject EXCEPT !.pkg = p, !.yo = y, !.daz = d] :
        p \in PkgFiles, y \in YoFiles, d \in DazFiles } \cup
    { [ pkg |-> PkgFile("absent", Undefined),
        yo |-> YoFile("absent", FALSE, Undefined, Undefined, Undefined),
        ps |-> PsFile("absent", FALSE, Undefined, Undefined),
        daz |-> DazFile("absent", Undefined),
        readme |-> ReadmeFile("absent", << >>) ] }

FileNames == {"pkg", "yo", "ps", "daz", "readme"}

\* ------------------------------------------------------- utility functions
\* Longest sample argument, in symbols, handed to normalizeSampleArg.
MaxLen == 5
\* Largest component of the version triples handed to versionGte.
MaxVer == 1

\* A sample argument is a sequence of symbols: the word "samples", a forward
\* slash, a backslash, a blank, or another character.
SelChars == {"samples", "/", "\\", " ", "a"}
SampleArgs == UNION { [1..n -> SelChars] : n \in 0..MaxLen }

\* sample.replaceAll("\\", "/")
Slashes(s) == [i \in 1..Len(s) |-> IF s[i] = "\\" THEN "/" ELSE s[i]]

\* s.startsWith(p)
startsWith(s, p) == Len(s) >= Len(p) /\ SubSeq(s, 1, Len(p)) = p

\* "samples/"
SamplesPrefix == << "samples", "/" >>

\* function normalizeSampleArg(sample)
normalizeSampleArg_Keep(sample) == Trim(Slashes(sample))
normalizeSampleArg(sample) ==
    LET s == Trim(Slashes(sample)) IN
    IF startsWith(s, SamplesPrefix)
    THEN SubSeq(s, Len(SamplesPrefix) + 1, Len(s))
    ELSE s

\* Version triples, and what `git --version` does on a machine: run rejects
\* (the binary cannot be spawned, or exits with a failure), or resolves with
\* the stdout printed.
Triples == (0..MaxVer) \X (0..MaxVer) \X (0..MaxVer)
GitVersions ==
    { << 1, 30, 1 >>, << 2, 24, 9 >>, << 2, 25, 0 >>, << 2, 25, 1 >>,
      << 2, 26, 0 >>, << 3, 0, 0 >>, << 0, 0, 0 >>, << 2, 0, 30 >> }
GitOutputs ==
    { << "" >>, << "notaversion" >>, << "git version" >>,
      << "git version", 2, 24 >>, << "git version", 1, 0 >> } \cup
    { << w >> \o v : w \in {"git version", "GIT VERSION"}, v \in GitVersions } \cup
    { << "git version" >> \o v \o << ".windows.1" >> : v \in GitVersions }
UtilGitEnvs == [runs : BOOLEAN, stdout : GitOutputs]

\* Paths are sequences of symbols too. replaceAll("/", "-"):
Dashes(s) == [i \in 1..Len(s) |-> IF s[i] = "/" THEN "-" ELSE s[i]]

\* const repo = options.repo || DEFAULT_REPO;
DEFAULT_REPO == "sp-dev-fx-webparts"

\* const defaultDest = mode === "extract" ? `./${sampleFolder}`
\*     : `./${repo}-${sampleFolder}`.replaceAll("/", "-");
\* (replaceAll is applied to the whole template string of the repo branch)
defaultDest(mode, repo, sampleFolder) ==
    IF mode = "extract"
    THEN << ".", "/" >> \o sampleFolder
    ELSE Dashes(<< ".", "/", repo, "-" >> \o sampleFolder)

\* const impliedDest = options.dest ? void 0
\*     : options.rename ? `./${options.rename}` : void 0;
impliedDest(destOpt, renameOpt) ==
    IF Truthy(destOpt) THEN Undefined
    ELSE IF Truthy(renameOpt) THEN Some(<< ".", "/" >> \o renameOpt[1])
    ELSE Undefined

\* options.dest ?? impliedDest ?? defaultDest
Coalesce(a, b, c) == IF a # Undefined THEN a[1] ELSE IF b # Undefined THEN b[1] ELSE c

\* The segments of a relative path: the pieces between its slashes.
RECURSIVE Segments(_, _)
Segments(p, cur) ==
    IF p = << >> THEN << cur >>
    ELSE IF Head(p) = "/" THEN << cur >> \o Segments(Tail(p), << >>)
    ELSE Segments(Tail(p), Append(cur, Head(p)))

\* path.resolve(p) of a relative path: the working directory followed by the
\* segments of p that are neither empty nor ".".
RECURSIVE JoinSegments(_)
JoinSegments(segs) ==
    IF segs = << >> THEN << >>
    ELSE (IF Head(segs) \in { << >>, << "." >> } THEN << >>
          ELSE << "/" >> \o Head(segs)) \o JoinSegments(Tail(segs))
resolve(p) == << "cwd" >> \o JoinSegments(Segments(p, << >>))

\* The sample arguments, destinations and new names getCommandHandler is
\* called with where its destination is looked at.
Selectors ==
    { << "a" >>, << "samples", "/", "a" >>, << "a", "/", "a" >>,
      << "samples", "\\", "a", "\\", "a" >>,
      << "samples", "/" >>, << "samples", "\\" >>, << " " >>, << " ", " " >>,
      << >> }
DestOptions == { Undefined, Some(<< "d" >>), Some(<< >>) }
RenameOptions == { Undefined, Some(<< "r" >>), Some(<< >>) }

\* No utility call is under way.
UtilIdle ==
    /\ u_in = [entry |-> "none"]
    /\ u_pc = "idle"
    /\ u_out = [entry |-> "none"]

\* The rewrite is not under way (a retrieval, a download).
RenameIdle ==
    /\ rn_in = [entry |-> "none"]
    /\ rn_pc = "idle"
    /\ UtilIdle
    /\ opts = [rename |-> Undefined, newId |-> Undefined]
    /\ project = SampleProject
    /\ oldName = Undefined
    /\ written = {}
    /\ rn_out = "pending"
    /\ applied = << >>

\* ------------------------------------------------------------------- Init
\* Either getCommandHandler is called (it passes no signal to the download),
\* or downloadSampleViaGitHubSubtree is called directly, with a signal that
\* may already be aborted.
RetrieveInputs ==
    [ entry : {"retrieve"},
      method : {Some(m) : m \in Methods},
      mode : {Some(m) : m \in Modes},
      force : BOOLEAN,
      newid : NewIds,
      git : GitEnvs,
      dest0 : DestStates,
      concurrency : {Undefined},
      preAborted : {FALSE} ]

DownloadInputs ==
    [ entry : {"download"},
      method : {Undefined},
      mode : {Undefined},
      force : {FALSE},
      newid : {"none"},
      git : {[runs |-> FALSE, stdout |-> << "" >>]},
      dest0 : {NoDest},
      concurrency : {Undefined} \cup {Some(c) : c \in 0..MaxConc},
      preAborted : BOOLEAN ]

\* fetchSampleViaSparseGitExtract called directly (as the CLI's get action
\* does), with a signal that may already be aborted.
SparseInputs ==
    [ entry : {"sparse"},
      method : {Some("git")},
      mode : {Some("extract")},
      force : {FALSE},
      newid : {"none"},
      git : {[runs |-> TRUE, stdout |-> << "git version", 2, 25, 0 >>]},
      dest0 : DestStates,
      concurrency : {Undefined},
      preAborted : BOOLEAN ]

Init ==
    /\ input \in RetrieveInputs \cup DownloadInputs \cup SparseInputs
    /\ pc = IF input.entry = "retrieve" THEN "start"
            ELSE IF input.entry = "sparse" THEN "fetch" ELSE "idle"
    /\ chosen = IF input.entry = "sparse" THEN "git" ELSE "none"
    /\ exits = << >>
    /\ rmTmp = << >>
    /\ calls = << >>
    /\ outcome = Pending
    /\ dest = input.dest0
    /\ tmpRoot = FALSE
    /\ gitStep = 0
    /\ trace = << >>
    /\ dl_pc = IF input.entry = "download" THEN "call" ELSE "idle"
    /\ trees = << >>
    /\ blobs = << >>
    /\ task = << >>
    /\ running = 0
    /\ queue = << >>
    /\ done = 0
    /\ progress = << >>
    /\ result = Pending
    /\ aborted = input.preAborted
    /\ abortedAt = IF input.preAborted THEN "before-call" ELSE "never"
    /\ firstFailed = 0
    /\ RenameIdle

\* ------------------------------------------------- getCommandHandler steps
\* The git subprocesses of sparseCloneInto, in program order.
GitSteps ==
    << "git clone", "git sparse-checkout init", "git sparse-checkout set",
       "git fetch", "git checkout" >>

\* child.on("close", code => code === 0 ? resolve(...) : reject(...)): how a
\* subprocess can end. -1 stands for the "error" event (the process could
\* not be spawned, there is no exit code), which rejects as well.
ExitCodes == {0, 1, -1}
StepOk_Any(code) == TRUE
StepOk(code) == code = 0

\* An operation getCommandHandler invokes (one of its deps) and the project
\* path it is given.
Call(op, path) == [op |-> op, path |-> path]
DestDir == "destDir"
SamplePath == "destDir/samples/sampleFolder"

\* The path handed to postProcess and, as projectPath, to finalize: destDir,
\* or path.join(destDir, "samples", sampleFolder) in repo mode.
ProjectPath_Root(ch, mode) == DestDir
ProjectPath(ch, mode) ==
    IF ch = "git" /\ mode = "repo" THEN SamplePath ELSE DestDir

\* await postProcess(...) is reached: the call is recorded.
CallPostProcess == calls' = Append(calls, Call("postProcess", ProjectPath(chosen, Mode)))

\* Lines 956-971: assertMode, assertMethod, the destination is computed, and
\* gitAvailableFn is called: run("git", ["--version"]) spawns the probe.
Retrieve_Start ==
    /\ pc = "start"
    /\ IF Mode = "throw" \/ Method = "throw"
       THEN /\ pc' = "failed"
            /\ outcome' = Fail("InvalidOption")
            /\ trace' = trace
       ELSE /\ pc' = "probe"
            /\ outcome' = outcome
            /\ trace' = Append(trace, Spawn("git --version"))
    /\ UNCHANGED << input, chosen, dest, tmpRoot, gitStep, exits, rmTmp, calls >>
    /\ UNCHANGED downloadVars
    /\ UNCHANGED renameVars

\* Lines 971-978: the probe has settled; the strategy is resolved; ensureGit
\* is called when it is git (a second `git --version`); otherwise the
\* mode/method check runs at once.
Retrieve_Probed ==
    /\ pc = "probe"
    /\ LET ch == Chosen(Method, isGitAvailable(input.git)) IN
       /\ chosen' = ch
       /\ IF ch = "git"
          THEN /\ pc' = "ensure"
               /\ trace' = Append(trace, Spawn("git --version"))
               /\ outcome' = outcome
          ELSE /\ trace' = trace
               /\ IF ModeMethodConflict(ch, Mode)
                  THEN pc' = "failed" /\ outcome' = Fail("ConfigurationError")
                  ELSE pc' = "destCheck" /\ outcome' = outcome
    /\ UNCHANGED << input, dest, tmpRoot, gitStep, exits, rmTmp, calls >>
    /\ UNCHANGED downloadVars
    /\ UNCHANGED renameVars

\* Lines 973-978: ensureGit has settled.
Retrieve_Ensured ==
    /\ pc = "ensure"
    /\ LET r == ensureGit(input.git) IN
       IF r # "ok"
       THEN pc' = "failed" /\ outcome' = Fail(r)
       ELSE IF ModeMethodConflict(chosen, Mode)
       THEN pc' = "failed" /\ outcome' = Fail("ConfigurationError")
       ELSE pc' = "destCheck" /\ outcome' = outcome
    /\ UNCHANGED << input, chosen, dest, tmpRoot, gitStep, exits, rmTmp,
                    calls, trace >>
    /\ UNCHANGED downloadVars
    /\ UNCHANGED renameVars

\* Lines 979-993: the destination check. Without force a non-empty directory
\* is a conflict; with force an existing destination is removed, and a
\* removal that fails (EBUSY/EPERM, or anything else) ends the call, having
\* removed nothing or some of the content.
Retrieve_DestCheck ==
    /\ pc = "destCheck"
    /\ IF ~pathExists(dest)
       THEN pc' = "fetch" /\ outcome' = outcome /\ dest' = dest
       ELSE IF ~input.force
       THEN /\ dest' = dest
            /\ IF isDirNonEmpty(dest)
               THEN pc' = "failed" /\ outcome' = Fail("DestinationConflict")
               ELSE pc' = "fetch" /\ outcome' = outcome
       ELSE \/ pc' = "fetch" /\ outcome' = outcome /\ dest' = RmRecursive(dest)
            \/ /\ pc' = "failed"
               /\ outcome' \in {Fail("DestinationBusy"), Fail("IOError")}
               /\ dest' \in {dest, [dest EXCEPT !.entries = {}]}
    /\ UNCHANGED << input, chosen, tmpRoot, gitStep, exits, rmTmp, calls, trace >>
    /\ UNCHANGED downloadVars
    /\ UNCHANGED renameVars

\* Lines 994-996: the API strategy creates the destination and calls download.
Retrieve_FetchApi ==
    /\ pc = "fetch"
    /\ chosen = "api"
    /\ IF MkdirOk(dest)
       THEN /\ dest' = Mkdir(dest)
            /\ pc' = "download"
            /\ dl_pc' = "call"
            /\ outcome' = outcome
            /\ calls' = Append(calls, Call("download", DestDir))
       ELSE /\ dest' = dest
            /\ pc' = "failed"
            /\ dl_pc' = dl_pc
            /\ outcome' = Fail("IOError")
            /\ calls' = calls
    /\ UNCHANGED << input, chosen, tmpRoot, gitStep, exits, rmTmp, trace, trees, blobs,
                    task, running, queue, done, progress, result, aborted,
                    abortedAt, firstFailed >>
    /\ UNCHANGED renameVars

\* The first subprocess of sparseCloneInto, the clone, is spawned.
StartClone ==
    /\ pc' = "git"
    /\ gitStep' = 1
    /\ trace' = Append(trace, Spawn(GitSteps[1]))
    /\ outcome' = outcome

\* Lines 1001-1009 with 333-342 and 359-364: the git strategy. Extract calls
\* fetchSparse, which makes a temporary root (mkdtemp may fail, before the
\* try) and clones into it; repo creates the destination and calls
\* sparseClone on it.
Retrieve_FetchGit ==
    /\ pc = "fetch"
    /\ chosen = "git"
    /\ IF Mode = "extract"
       THEN /\ dest' = dest
            /\ calls' = IF input.entry = "retrieve"
                        THEN Append(calls, Call("fetchSparse", DestDir))
                        ELSE calls
            /\ \/ /\ tmpRoot' = TRUE
                  /\ StartClone
               \/ /\ tmpRoot' = tmpRoot
                  /\ pc' = "failed"
                  /\ gitStep' = gitStep
                  /\ trace' = trace
                  /\ outcome' = Fail("IOError")
       ELSE /\ tmpRoot' = tmpRoot
            /\ IF MkdirOk(dest)
               THEN /\ dest' = Mkdir(dest)
                    /\ calls' = Append(calls, Call("sparseClone", DestDir))
                    /\ StartClone
               ELSE /\ dest' = dest
                    /\ calls' = calls
                    /\ pc' = "failed"
                    /\ gitStep' = gitStep
                    /\ trace' = trace
                    /\ outcome' = Fail("IOError")
    /\ UNCHANGED << input, chosen, exits, rmTmp >>
    /\ UNCHANGED downloadVars
    /\ UNCHANGED renameVars

\* What a git step that exited 0 left in the repository directory: the clone
\* leaves the metadata, the checkout the sample when the ref holds it.
GitWrites(step, present) ==
    IF step = 1 THEN {".git"}
    ELSE IF step = 5 /\ present THEN {"samples"}
    ELSE {}

\* finally { await fs.rm(tmpRoot, { recursive: true, force: true })
\*                   .catch(() => void 0); }
\* of the extract variant: one removal is attempted; it may fail, which is
\* swallowed and leaves the temporary root behind.
CleanupTmp_Skipped == UNCHANGED << tmpRoot, rmTmp >>
CleanupTmp ==
    IF Mode = "extract"
    THEN \E removed \in BOOLEAN :
            /\ tmpRoot' = ~removed
            /\ rmTmp' = Append(rmTmp, removed)
    ELSE UNCHANGED << tmpRoot, rmTmp >>

\* Lines 338-357: a git step has ended. A nonzero exit or a spawn error ends
\* the operation; exit 0 starts the next step, and after the checkout the
\* sample directory is verified (present and non-empty), which `exits`
\* records as a sixth entry (0: verified).
Retrieve_GitStepDone ==
    /\ pc = "git"
    /\ gitStep \in 1..Len(GitSteps)
    /\ \E code \in ExitCodes, present \in BOOLEAN :
         IF ~StepOk(code)
         THEN /\ pc' = "failed"
              /\ outcome' = Fail("ToolInvocationError")
              /\ exits' = Append(exits, code)
              /\ gitStep' = 0
              /\ trace' = trace
              /\ dest' = dest
              /\ calls' = calls
              /\ CleanupTmp
         ELSE /\ dest' = IF Mode = "repo"
                         THEN [dest EXCEPT !.entries = @ \cup GitWrites(gitStep, present)]
                         ELSE dest
              /\ IF gitStep < Len(GitSteps)
                 THEN /\ present
                      /\ exits' = Append(exits, code)
                      /\ gitStep' = gitStep + 1
                      /\ trace' = Append(trace, Spawn(GitSteps[gitStep + 1]))
                      /\ pc' = pc
                      /\ outcome' = outcome
                      /\ calls' = calls
                      /\ UNCHANGED << tmpRoot, rmTmp >>
                 ELSE /\ gitStep' = 0
                      /\ trace' = trace
                      /\ exits' = exits \o << code, IF present THEN 0 ELSE 1 >>
                      /\ IF ~present
                         THEN /\ pc' = "failed"
                              /\ outcome' = Fail("SampleNotFound")
                              /\ calls' = calls
                              /\ CleanupTmp
                         ELSE /\ outcome' = outcome
                              /\ UNCHANGED << tmpRoot, rmTmp >>
                              /\ IF Mode = "extract"
                                 THEN pc' = "copy" /\ calls' = calls
                                 ELSE pc' = "post" /\ CallPostProcess
    /\ UNCHANGED << input, chosen >>
    /\ UNCHANGED downloadVars
    /\ UNCHANGED renameVars

\* Lines 365-370: copyDir(srcSampleDir, destDir) has settled, and the
\* temporary root is removed in the finally. getCommandHandler then calls
\* postProcess; a direct call of the extract returns.
Retrieve_Copied ==
    /\ pc = "copy"
    /\ \/ /\ MkdirOk(dest)
          /\ dest' = [Mkdir(dest) EXCEPT !.entries = @ \cup {"sample"}]
          /\ IF input.entry = "retrieve"
             THEN pc' = "post" /\ outcome' = outcome /\ CallPostProcess
             ELSE pc' = "done" /\ outcome' = Ok /\ calls' = calls
       \/ /\ dest' = dest
          /\ pc' = "failed"
          /\ outcome' = Fail("IOError")
          /\ calls' = calls
    /\ CleanupTmp
    /\ UNCHANGED << input, chosen, gitStep, exits, trace >>
    /\ UNCHANGED downloadVars
    /\ UNCHANGED renameVars

\* Lines 996-999: the awaited download has settled.
Retrieve_Downloaded ==
    /\ pc = "download"
    /\ result # Pending
    /\ IF result = Ok
       THEN pc' = "post" /\ outcome' = outcome /\ CallPostProcess
       ELSE pc' = "failed" /\ outcome' = result /\ calls' = calls
    /\ UNCHANGED << input, chosen, dest, tmpRoot, gitStep, exits, rmTmp, trace >>
    /\ UNCHANGED downloadVars
    /\ UNCHANGED renameVars

\* if (typeof options.newid === "string") { ... if (!isGuid(newId)) throw ... }
IdentifierRejected_Never(newid) == FALSE
IdentifierRejected(newid) == newid = "invalid"

\* Lines 741-759: postProcessProject rejects a supplied identifier that is
\* no GUID; otherwise the project files are rewritten in place, and
\* finalize is called.
Retrieve_PostProcessed ==
    /\ pc = "post"
    /\ IF IdentifierRejected(input.newid)
       THEN pc' = "failed" /\ outcome' = Fail("InvalidIdentifier") /\ calls' = calls
       ELSE /\ pc' = "finalize"
            /\ outcome' = outcome
            /\ calls' = Append(calls, Call("finalize", ProjectPath(chosen, Mode)))
    /\ UNCHANGED << input, chosen, dest, tmpRoot, gitStep, exits, rmTmp, trace >>
    /\ UNCHANGED downloadVars
    /\ UNCHANGED renameVars

\* Lines 998-999, 1005, 1012: finalize has settled and the handler returns.
Retrieve_Finalized ==
    /\ pc = "finalize"
    /\ pc' = "done"
    /\ outcome' = Ok
    /\ UNCHANGED << input, chosen, dest, tmpRoot, gitStep, exits, rmTmp, calls, trace >>
    /\ UNCHANGED downloadVars
    /\ UNCHANGED renameVars

\* The caller aborts the signal handed to the extract while it is under way:
\* run's abort listener kills the subprocess in flight, and a subprocess
\* spawned later is killed as soon as it is spawned. How a killed subprocess
\* ends is the subprocess's business (ExitCodes); the copy and the removal
\* of the temporary root do not look at the signal.
Abort_Sparse ==
    /\ input.entry = "sparse"
    /\ ~aborted
    /\ pc \in {"fetch", "git", "copy"}
    /\ aborted' = TRUE
    /\ abortedAt' = pc
    /\ UNCHANGED << input, dest, trace, dl_pc, trees, blobs, task, running,
                    queue, done, progress, result, firstFailed >>
    /\ UNCHANGED retrieveVars
    /\ UNCHANGED renameVars

\* ----------------------------------------- downloadSampleViaGitHubSubtree
\* A file download: "new" before it is scheduled, "queued" behind the
\* semaphore, "fetching" while its content request is in flight (until the
\* body is read), "writing" while the file is created, then "ok" or
\* "failed" with the failure it threw.
Task(st, err) == [st |-> st, err |-> err]

\* The semaphore, the downloads and what they share, as one value that the
\* synchronous code and the promise continuations transform.
Sem ==
    [ max |-> Concurrency, running |-> running, queue |-> queue,
      task |-> task, trace |-> trace, result |-> result,
      first |-> firstFailed, aborted |-> aborted ]

\* if (running < max) run(); else queue.push(run);
Admit_OneMore(run, max) == run <= max
Admit(run, max) == run < max

\* Promise.all(...) rejects with the first rejection of its promises ...
PromiseAllReject_Swallowed(res, err) == res
PromiseAllReject(res, err) == IF res = Pending THEN err ELSE res

\* ... and fulfils once all of them have fulfilled.
PromiseAllResolve(res, tasks) ==
    IF res = Pending /\ \A i \in 1..Len(tasks) : tasks[i].st = "ok"
    THEN Ok ELSE res

\* if (opts.signal?.aborted) throw new Error("Download aborted"), at the top
\* of each file download.
AbortCheck_Missing(isAborted) == FALSE
AbortCheck(isAborted) == isAborted

\* The number handed to onProgress as the total: blobs.length.
Total_AllEntries == Len(trees[3].tree)
Total == Len(blobs)

RECURSIVE run2(_, _)
RECURSIVE next(_)

\* catch (e) { reject(e); } finally { next(); } of the semaphore's run: the
\* download i has thrown err.
Rejected_Halt(S, i, err) ==
    [S EXCEPT !.task[i] = Task("failed", err),
              !.first = IF @ = 0 THEN i ELSE @,
              !.result = PromiseAllReject(@, Res(err, blobs[i].path)),
              !.running = @ - 1]
Rejected_Retry(S, i, err) ==
    [S EXCEPT !.trace = Append(@, GetRaw(blobs[i].path))]
Rejected(S, i, err) ==
    next([S EXCEPT !.task[i] = Task("failed", err),
                   !.first = IF @ = 0 THEN i ELSE @,
                   !.result = PromiseAllReject(@, Res(err, blobs[i].path))])

\* const next = () => { running--; const fn = queue.shift(); if (fn) fn(); }
next(S) ==
    LET S1 == [S EXCEPT !.running = @ - 1] IN
    IF S1.queue = << >> THEN S1
    ELSE run2([S1 EXCEPT !.queue = Tail(@)], Head(S1.queue))

\* const run = async () => { running++; ... await fn() ... }: the download
\* starts; it throws at once when the signal is aborted, and otherwise
\* issues its content request.
run2(S, i) ==
    LET S1 == [S EXCEPT !.running = @ + 1] IN
    IF AbortCheck(S1.aborted) THEN Rejected(S1, i, "Cancelled")
    ELSE [S1 EXCEPT !.task[i] = Task("fetching", ""),
                    !.trace = Append(@, GetRaw(blobs[i].path))]

\* sem(fn): the returned scheduling function.
sem_Lifo(S, i) ==
    IF Admit(S.running, S.max) THEN run2(S, i)
    ELSE [S EXCEPT !.queue = << i >> \o @, !.task[i] = Task("queued", "")]
sem(S, i) ==
    IF Admit(S.running, S.max) THEN run2(S, i)
    ELSE [S EXCEPT !.queue = Append(@, i), !.task[i] = Task("queued", "")]

\* blobs.map(b => sem(...)): every file entry is scheduled, in listing order.
RECURSIVE ScheduleFrom(_, _)
ScheduleFrom(S, i) ==
    IF i > Len(blobs) THEN S ELSE ScheduleFrom(sem(S, i), i + 1)

\* The signal aborts: every content request in flight rejects, in the order
\* the requests were issued.
RECURSIVE AbortFrom(_, _)
AbortFrom(S, i) ==
    IF i > Len(blobs) THEN S
    ELSE IF S.task[i].st = "fetching"
    THEN AbortFrom(Rejected(S, i, "Cancelled"), i + 1)
    ELSE AbortFrom(S, i + 1)

\* The state after the semaphore value S.
SemNext(S) ==
    /\ running' = S.running
    /\ queue' = S.queue
    /\ task' = S.task
    /\ trace' = S.trace
    /\ result' = S.result
    /\ firstFailed' = S.first

DownloadFails(err) ==
    /\ dl_pc' = "failed"
    /\ result' = err

\* Lines 61-65: the call. An already aborted signal throws before anything
\* is requested; otherwise the root tree lookup is issued.
Download_Enter ==
    /\ dl_pc = "call"
    /\ IF AbortCheck(aborted)
       THEN DownloadFails(Fail("Cancelled")) /\ trace' = trace
       ELSE /\ dl_pc' = "root"
            /\ result' = result
            /\ trace' = Append(trace, GetTree("ref"))
    /\ UNCHANGED << input, dest, trees, blobs, task, running, queue, done,
                    progress, aborted, abortedAt, firstFailed >>
    /\ UNCHANGED retrieveVars
    /\ UNCHANGED renameVars

\* Lines 65-68: the root lookup has settled; the "samples" directory entry
\* is looked up and its tree requested.
Download_RootListed ==
    /\ dl_pc = "root"
    /\ \E res \in ResponsesAt("root") :
         /\ trees' = Append(trees, res)
         /\ IF fetchJson(res) # "ok"
            THEN DownloadFails(FetchError(res)) /\ trace' = trace
            ELSE IF res.message
            THEN DownloadFails(Fail("RemoteApiError")) /\ trace' = trace
            ELSE LET k == FindTree(res.tree, "samples") IN
                 IF k = 0
                 THEN DownloadFails(Res("NotFound", "samples")) /\ trace' = trace
                 ELSE /\ dl_pc' = "samples"
                      /\ result' = result
                      /\ trace' = Append(trace, GetTree(res.tree[k].sha))
    /\ UNCHANGED << input, dest, blobs, task, running, queue, done, progress,
                    aborted, abortedAt, firstFailed >>
    /\ UNCHANGED retrieveVars
    /\ UNCHANGED renameVars

\* Lines 69-72: the samples lookup has settled; the sample folder's entry is
\* looked up and its tree requested recursively.
Download_SamplesListed ==
    /\ dl_pc = "samples"
    /\ \E res \in ResponsesAt("samples") :
         /\ trees' = Append(trees, res)
         /\ IF fetchJson(res) # "ok"
            THEN DownloadFails(FetchError(res)) /\ trace' = trace
            ELSE LET k == FindTree(res.tree, SampleFolder) IN
                 IF k = 0
                 THEN DownloadFails(Res("NotFound", SampleFolder)) /\ trace' = trace
                 ELSE /\ dl_pc' = "sample"
                      /\ result' = result
                      /\ trace' = Append(trace, GetTree(res.tree[k].sha))
    /\ UNCHANGED << input, dest, blobs, task, running, queue, done, progress,
                    aborted, abortedAt, firstFailed >>
    /\ UNCHANGED retrieveVars
    /\ UNCHANGED renameVars

\* Lines 72-78: the recursive lookup has settled; a truncated listing and a
\* listing without files are refused; otherwise destDir is being created.
Download_SampleListed ==
    /\ dl_pc = "sample"
    /\ \E res \in ResponsesAt("sample") :
         /\ trees' = Append(trees, res)
         /\ IF fetchJson(res) # "ok"
            THEN DownloadFails(FetchError(res)) /\ blobs' = blobs
            ELSE IF res.truncated
            THEN DownloadFails(Fail("TruncatedListing")) /\ blobs' = blobs
            ELSE /\ blobs' = Blobs(res.tree)
                 /\ IF Len(blobs') = 0
                    THEN DownloadFails(Fail("EmptySample"))
                    ELSE dl_pc' = "mkdir" /\ result' = result
    /\ UNCHANGED << input, dest, task, running, queue, done, progress, trace,
                    aborted, abortedAt, firstFailed >>
    /\ UNCHANGED retrieveVars
    /\ UNCHANGED renameVars

\* Lines 78-99: destDir exists; the semaphore is created and every file
\* download is scheduled.
Download_Scheduled ==
    /\ dl_pc = "mkdir"
    /\ IF ~MkdirOk(dest)
       THEN /\ DownloadFails(Fail("IOError"))
            /\ UNCHANGED << dest, task, running, queue, trace, firstFailed >>
       ELSE /\ dest' = Mkdir(dest)
            /\ dl_pc' = "tasks"
            /\ SemNext(ScheduleFrom(
                 [Sem EXCEPT !.running = 0, !.queue = << >>,
                             !.task = [i \in 1..Len(blobs) |-> Task("new", "")]],
                 1))
    /\ UNCHANGED << input, trees, blobs, done, progress, aborted, abortedAt >>
    /\ UNCHANGED retrieveVars
    /\ UNCHANGED renameVars

\* Lines 89-91: the content request of download i has settled and its body
\* was read, or the response was not ok and the download throws.
Download_Fetched(i) ==
    /\ dl_pc = "tasks"
    /\ task[i].st = "fetching"
    /\ \/ SemNext([Sem EXCEPT !.task[i] = Task("writing", "")])
       \/ SemNext(Rejected(Sem, i, "DownloadError"))
    /\ UNCHANGED << input, dest, dl_pc, trees, blobs, done, progress,
                    aborted, abortedAt >>
    /\ UNCHANGED retrieveVars
    /\ UNCHANGED renameVars

\* Lines 92-96: the file of download i was written, the counter is bumped
\* and progress reported, and the semaphore's slot is handed on; or the
\* write failed and the download throws.
Download_Written(i) ==
    /\ dl_pc = "tasks"
    /\ task[i].st = "writing"
    /\ \/ /\ dest' = [dest EXCEPT !.entries = @ \cup {blobs[i].path}]
          /\ done' = done + 1
          /\ progress' = Append(progress,
                [done |-> done + 1, total |-> Total, file |-> blobs[i].path])
          /\ LET S == next([Sem EXCEPT !.task[i] = Task("ok", "")]) IN
             SemNext([S EXCEPT !.result = PromiseAllResolve(@, S.task)])
       \/ /\ SemNext(Rejected(Sem, i, "WriteError"))
          /\ UNCHANGED << dest, done, progress >>
    /\ UNCHANGED << input, dl_pc, trees, blobs, aborted, abortedAt >>
    /\ UNCHANGED retrieveVars
    /\ UNCHANGED renameVars

\* What the download is doing, as seen when the signal is cancelled.
Activity ==
    IF result # Pending THEN "after-failure"
    ELSE IF dl_pc \in {"root", "samples", "sample"} THEN "lookup"
    ELSE IF dl_pc = "mkdir" THEN "mkdir"
    ELSE IF \E i \in 1..Len(task) : task[i].st = "fetching" THEN "fetching"
    ELSE "writing"

Unsettled == { i \in 1..Len(task) : task[i].st \in {"queued", "fetching", "writing"} }

\* The caller aborts the signal while the download is under way: a lookup
\* in flight rejects, and so does every content request in flight.
Abort ==
    /\ input.entry = "download"
    /\ ~aborted
    /\ \/ dl_pc \in {"root", "samples", "sample", "mkdir"}
       \/ dl_pc = "tasks" /\ Unsettled # {}
    /\ aborted' = TRUE
    /\ abortedAt' = Activity
    /\ IF dl_pc \in {"root", "samples", "sample"}
       THEN /\ DownloadFails(Fail("Cancelled"))
            /\ UNCHANGED << task, running, queue, trace, firstFailed >>
       ELSE IF dl_pc = "mkdir"
       THEN UNCHANGED << dl_pc, result, task, running, queue, trace, firstFailed >>
       ELSE /\ dl_pc' = dl_pc
            /\ SemNext(AbortFrom([Sem EXCEPT !.aborted = TRUE], 1))
    /\ UNCHANGED << input, dest, trees, blobs, done, progress >>
    /\ UNCHANGED retrieveVars
    /\ UNCHANGED renameVars

\* ------------------------------------------------------------ specification
Next ==
    \/ Retrieve_Start
    \/ Retrieve_Probed
    \/ Retrieve_Ensured
    \/ Retrieve_DestCheck
    \/ Retrieve_FetchApi
    \/ Retrieve_FetchGit
    \/ Retrieve_GitStepDone
    \/ Retrieve_Copied
    \/ Retrieve_Downloaded
    \/ Retrieve_PostProcessed
    \/ Retrieve_Finalized
    \/ Download_Enter
    \/ Download_RootListed
    \/ Download_SamplesListed
    \/ Download_SampleListed
    \/ Download_Scheduled
    \/ \E i \in 1..Len(task) : Download_Fetched(i)
    \/ \E i \in 1..Len(task) : Download_Written(i)
    \/ Abort
    \/ Abort_Sparse

Spec == Init /\ [][Next]_vars

\* downloadSampleViaGitHubSubtree called directly, where every download that
\* has started settles: the event loop delivers the response of a content
\* request in flight and the completion of a write in flight.
DownloadInit == Init /\ input.entry = "download"
DownloadNext ==
    \/ Download_Enter
    \/ Download_RootListed
    \/ Download_SamplesListed
    \/ Download_SampleListed
    \/ Download_Scheduled
    \/ \E i \in 1..Len(task) : Download_Fetched(i)
    \/ \E i \in 1..Len(task) : Download_Written(i)
    \/ Abort
EverySettles ==
    \A i \in 1..MaxFiles :
        /\ WF_vars(i <= Len(task) /\ Download_Fetched(i))
        /\ WF_vars(i <= Len(task) /\ Download_Written(i))
LiveSpec == DownloadInit /\ [][DownloadNext]_vars /\ EverySettles

\* -------------------------------------------- the identity rewrite: steps
mainVars == << input, pc, chosen, outcome, dest, tmpRoot, gitStep, exits,
               rmTmp, calls, trace, dl_pc, trees, blobs, task, running,
               queue, done, progress, result, aborted, abortedAt, firstFailed,
               utilVars >>

\* options.newid: not given, given without a value (the flag), the empty
\* string, or a string.
NewIdOption(kind, v) == [kind |-> kind, v |-> v]
NoNewId == NewIdOption("none", NotAGuid)

\* postProcessProject(projectPath, options) is called on a project.
PostProcessInputs ==
    [ entry : {"postProcess"},
      project : Projects,
      rename : {Undefined} \cup {Some(n) : n \in NewNames},
      newid : { NoNewId, NewIdOption("flag", NotAGuid),
                NewIdOption("empty", NotAGuid) } \cup
              { NewIdOption("string", v) :
                  v \in {NewId, PaddedId, NotAGuid, NilId, NotHexId} } ]

\* renameSpfxProject(projectDir, { rename, newId }) is called directly.
RenameInputs ==
    [ entry : {"rename"},
      project : Projects,
      rename : {Undefined} \cup {Some(n) : n \in NewNames},
      newid : { NoNewId, NewIdOption("string", NewId) } ]

RenameInit ==
    /\ rn_in \in PostProcessInputs \cup RenameInputs
    /\ rn_pc = IF rn_in.entry = "postProcess" THEN "post" ELSE "pkg"
    /\ opts = IF rn_in.entry = "postProcess"
              THEN [rename |-> Undefined, newId |-> Undefined]
              ELSE [rename |-> rn_in.rename,
                    newId |-> IF rn_in.newid.kind = "string"
                              THEN Some(rn_in.newid.v) ELSE Undefined]
    /\ project = rn_in.project
    /\ oldName = Undefined
    /\ written = {}
    /\ rn_out = "pending"
    /\ applied = << >>
    /\ UtilIdle
    /\ input = [entry |-> "rewrite"]
    /\ pc = "idle"
    /\ chosen = "none"
    /\ outcome = Pending
    /\ dest = NoDest
    /\ tmpRoot = FALSE
    /\ gitStep = 0
    /\ exits = << >>
    /\ rmTmp = << >>
    /\ calls = << >>
    /\ trace = << >>
    /\ dl_pc = "idle"
    /\ trees = << >>
    /\ blobs = << >>
    /\ task = << >>
    /\ running = 0
    /\ queue = << >>
    /\ done = 0
    /\ progress = << >>
    /\ result = Pending
    /\ aborted = FALSE
    /\ abortedAt = "never"
    /\ firstFailed = 0

\* const rename = options.rename?.trim();
TrimmedRename(o) == IF o = Undefined THEN Undefined ELSE Some(Trim(o[1]))

\* Lines 741-759: postProcessProject. A string newid is trimmed and must be
\* a GUID; the flag draws a random one; then renameSpfxProject is called if
\* there is a name or an identifier to apply.
postProcessProject ==
    /\ rn_pc = "post"
    /\ LET rename == TrimmedRename(rn_in.rename)
           opt == rn_in.newid
       IN  IF opt.kind = "string" /\ ~isGuid(TrimId(opt.v))
           THEN /\ rn_pc' = "failed"
                /\ rn_out' = "InvalidIdentifier"
                /\ opts' = opts
           ELSE \E newId \in IF opt.kind = "string" THEN {Some(TrimId(opt.v))}
                             ELSE IF opt.kind = "flag" THEN {Some(RandomId)}
                             ELSE {Undefined} :
                  /\ opts' = [rename |-> rename, newId |-> newId]
                  /\ IF Truthy(rename) \/ newId # Undefined
                     THEN rn_pc' = "pkg" /\ rn_out' = rn_out
                     ELSE rn_pc' = "done" /\ rn_out' = "ok"
    /\ UNCHANGED << rn_in, project, oldName, written, applied >>
    /\ UNCHANGED mainVars

\* await writeJsonPretty(path, obj) / fs.writeFile: the write of file f with
\* content c succeeds, or fails and the rewrite throws.
WriteFile(f, c, nextpc) ==
    \/ /\ project' = [project EXCEPT ![f] = c]
       /\ written' = written \cup {f}
       /\ rn_pc' = nextpc
       /\ rn_out' = rn_out
    \/ /\ rn_pc' = "failed"
       /\ rn_out' = "IOError"
       /\ UNCHANGED << project, written >>

\* Nothing is written for this file.
SkipFile(nextpc) ==
    /\ rn_pc' = nextpc
    /\ UNCHANGED << project, written, rn_out >>

\* readJsonIfExists(path): the object, or null for a file that is missing
\* or does not parse.
readJsonIfExists_Null(file) == Null
readJsonIfExists_Unchecked(file) == file
readJsonIfExists(file) == IF file.st = "json" THEN file ELSE Null

\* Lines 692-698: package.json. oldName is taken from it; with a rename its
\* name is set and the file written.
Rename_Package ==
    /\ rn_pc = "pkg"
    /\ LET pkg == readJsonIfExists(project.pkg) IN
       /\ oldName' = IF pkg = Null THEN Undefined ELSE pkg.name
       /\ IF pkg # Null /\ Truthy(opts.rename)
          THEN WriteFile("pkg", [pkg EXCEPT !.name = opts.rename, !.pretty = TRUE], "yo")
          ELSE SkipFile("yo")
    /\ UNCHANGED << rn_in, opts, applied >>
    /\ UNCHANGED mainVars

\* Lines 699-711: .yo-rc.json. With the generator's section present, the
\* string fields libraryName and solutionName are set to the new name, the
\* string field libraryId to the new identifier, and the file is written.
Rename_Generator ==
    /\ rn_pc = "yo"
    /\ LET yo == readJsonIfExists(project.yo) IN
       IF yo # Null /\ yo.gen
       THEN WriteFile("yo",
              [yo EXCEPT
                 !.libraryName = IF Truthy(opts.rename) /\ @ # Undefined
                                 THEN opts.rename ELSE @,
                 !.solutionName = IF Truthy(opts.rename) /\ @ # Undefined
                                  THEN opts.rename ELSE @,
                 !.libraryId = IF opts.newId # Undefined /\ @ # Undefined
                               THEN opts.newId ELSE @,
                 !.pretty = TRUE],
              "ps")
       ELSE SkipFile("ps")
    /\ UNCHANGED << rn_in, opts, oldName, applied >>
    /\ UNCHANGED mainVars

\* Lines 712-723: config/package-solution.json. With a solution present,
\* the previous name is replaced in the string field name, the string field
\* id is set to the new identifier, and the file is written.
Rename_Manifest ==
    /\ rn_pc = "ps"
    /\ LET ps == readJsonIfExists(project.ps) IN
       IF ps # Null /\ ps.solution
       THEN WriteFile("ps",
              [ps EXCEPT
                 !.name = IF Truthy(opts.rename) /\ @ # Undefined /\ Truthy(oldName)
                          THEN Some(ReplaceName(@[1], oldName[1], opts.rename[1]))
                          ELSE @,
                 !.id = IF opts.newId # Undefined /\ @ # Undefined
                        THEN opts.newId ELSE @,
                 !.pretty = TRUE],
              "daz")
       ELSE SkipFile("daz")
    /\ UNCHANGED << rn_in, opts, oldName, applied >>
    /\ UNCHANGED mainVars

\* Lines 724-729: config/deploy-azure-storage.json. With a rename and a
\* string field container, the container is set and the file written.
Rename_Deploy ==
    /\ rn_pc = "daz"
    /\ LET daz == readJsonIfExists(project.daz) IN
       IF daz # Null /\ Truthy(opts.rename) /\ daz.container # Undefined
       THEN WriteFile("daz", [daz EXCEPT !.container = opts.rename, !.pretty = TRUE],
                      "readme")
       ELSE SkipFile("readme")
    /\ UNCHANGED << rn_in, opts, oldName, applied >>
    /\ UNCHANGED mainVars

\* Lines 730-740: README.md. With a rename and a previous name, the
\* previous name is replaced in the text and the file written if the text
\* changed; a missing file and a failed write are swallowed by the catch.
Rename_Readme ==
    /\ rn_pc = "readme"
    /\ rn_pc' = "done"
    /\ rn_out' = "ok"
    /\ IF Truthy(opts.rename) /\ Truthy(oldName) /\ project.readme.st = "text"
       THEN LET existing == project.readme.text
                updated == ReplaceName(existing, oldName[1], opts.rename[1])
            IN  IF updated # existing
                THEN \/ /\ project' = [project EXCEPT !.readme.text = updated]
                        /\ written' = written \cup {"readme"}
                     \/ UNCHANGED << project, written >>
                ELSE UNCHANGED << project, written >>
       ELSE UNCHANGED << project, written >>
    /\ applied' = Append(applied, project')
    /\ UNCHANGED << rn_in, opts, oldName >>
    /\ UNCHANGED mainVars

\* renameSpfxProject(projectDir, opts) is called once more on the directory
\* the first call has rewritten, with the same options.
MaxCalls == 2
Rename_Again ==
    /\ rn_in.entry = "rename"
    /\ rn_pc = "done"
    /\ rn_out = "ok"
    /\ Len(applied) < MaxCalls
    /\ rn_pc' = "pkg"
    /\ rn_out' = "pending"
    /\ UNCHANGED << rn_in, opts, project, oldName, written, applied >>
    /\ UNCHANGED mainVars

RenameNext ==
    \/ postProcessProject
    \/ Rename_Package
    \/ Rename_Generator
    \/ Rename_Manifest
    \/ Rename_Deploy
    \/ Rename_Readme
    \/ Rename_Again

RenameSpec == RenameInit /\ [][RenameNext]_vars

\* ----------------------------------------------------- utility call steps
allButUtil ==
    << input, pc, chosen, outcome, dest, tmpRoot, gitStep, exits, rmTmp, calls,
       trace, dl_pc, trees, blobs, task, running, queue, done, progress, result,
       aborted, abortedAt, firstFailed, rn_in, rn_pc, opts, project, oldName,
       written, rn_out, applied >>

\* normalizeSampleArg(x), versionGte over three triples, ensureGit on a
\* machine, or the head of getCommandHandler (lines 944-970) is called.
UtilInputs ==
    [ entry : {"normalize"}, x : SampleArgs ] \cup
    [ entry : {"versionGte"}, a : Triples, b : Triples, c : Triples ] \cup
    [ entry : {"ensureGit"}, git : UtilGitEnvs ] \cup
    [ entry : {"resolve"}, sample : Selectors, dest : DestOptions,
      rename : RenameOptions, mode : {Some(m) : m \in Modes} ]

UtilInit ==
    /\ u_in \in UtilInputs
    /\ u_pc = "call"
    /\ u_out = [entry |-> u_in.entry]
    /\ rn_in = [entry |-> "none"]
    /\ rn_pc = "idle"
    /\ opts = [rename |-> Undefined, newId |-> Undefined]
    /\ project = SampleProject
    /\ oldName = Undefined
    /\ written = {}
    /\ rn_out = "pending"
    /\ applied = << >>
    /\ input = [entry |-> "utility"]
    /\ pc = "idle"
    /\ chosen = "none"
    /\ outcome = Pending
    /\ dest = NoDest
    /\ tmpRoot = FALSE
    /\ gitStep = 0
    /\ exits = << >>
    /\ rmTmp = << >>
    /\ calls = << >>
    /\ trace = << >>
    /\ dl_pc = "idle"
    /\ trees = << >>
    /\ blobs = << >>
    /\ task = << >>
    /\ running = 0
    /\ queue = << >>
    /\ done = 0
    /\ progress = << >>
    /\ result = Pending
    /\ aborted = FALSE
    /\ abortedAt = "never"
    /\ firstFailed = 0

\* normalizeSampleArg(x) is called.
Util_Normalize ==
    /\ u_in.entry = "normalize"
    /\ u_pc = "call"
    /\ u_pc' = "again"
    /\ u_out' = [entry |-> "normalize", once |-> normalizeSampleArg(u_in.x)]
    /\ UNCHANGED u_in
    /\ UNCHANGED allButUtil

\* normalizeSampleArg is called on what it returned.
Util_NormalizeAgain ==
    /\ u_in.entry = "normalize"
    /\ u_pc = "again"
    /\ u_pc' = "done"
    /\ u_out' = [entry |-> "normalize", once |-> u_out.once,
                 twice |-> normalizeSampleArg(u_out.once)]
    /\ UNCHANGED u_in
    /\ UNCHANGED allButUtil

\* versionGte is called on each pair of the three triples.
Util_Compare ==
    /\ u_in.entry = "versionGte"
    /\ u_pc = "call"
    /\ u_pc' = "done"
    /\ u_out' = [entry |-> "versionGte",
                 ab |-> versionGte(u_in.a, u_in.b),
                 ba |-> versionGte(u_in.b, u_in.a),
                 bc |-> versionGte(u_in.b, u_in.c),
                 ac |-> versionGte(u_in.a, u_in.c),
                 aa |-> versionGte(u_in.a, u_in.a)]
    /\ UNCHANGED u_in
    /\ UNCHANGED allButUtil

\* ensureGit() is called on a machine.
Util_EnsureGit ==
    /\ u_in.entry = "ensureGit"
    /\ u_pc = "call"
    /\ u_pc' = "done"
    /\ u_out' = [entry |-> "ensureGit", result |-> ensureGit(u_in.git)]
    /\ UNCHANGED u_in
    /\ UNCHANGED allButUtil

\* Lines 944-970 of getCommandHandler: the sample argument is normalized,
\* mode is asserted (a bad mode throws), and the destination is resolved;
\* the handler then goes on to probe git.
Util_Resolve ==
    /\ u_in.entry = "resolve"
    /\ u_pc = "call"
    /\ LET sampleFolder == normalizeSampleArg(u_in.sample)
           mode == assertMode(u_in.mode)
       IN  IF mode = "throw"
           THEN /\ u_pc' = "failed"
                /\ u_out' = [entry |-> "resolve", sampleFolder |-> sampleFolder,
                             result |-> "InvalidOption"]
           ELSE /\ u_pc' = "probe"
                /\ u_out' = [entry |-> "resolve", sampleFolder |-> sampleFolder,
                             result |-> "pending",
                             destDir |-> resolve(Coalesce(u_in.dest,
                                 impliedDest(u_in.dest, u_in.rename),
                                 defaultDest(mode, DEFAULT_REPO, sampleFolder)))]
    /\ UNCHANGED u_in
    /\ UNCHANGED allButUtil

UtilNext ==
    \/ Util_Normalize
    \/ Util_NormalizeAgain
    \/ Util_Compare
    \/ Util_EnsureGit
    \/ Util_Resolve

UtilSpec == UtilInit /\ [][UtilNext]_vars

\* ================================================================= claims
Retrieving == input.entry = "retrieve"
ValidOptions == Retrieving /\ Mode # "throw" /\ Method # "throw"
Returned == pc \in {"failed", "done"}
Probe == Spawn("git --version")

\* The strategy the call resolves to, from its arguments and the machine.
ResolvesToApi ==
    /\ ValidOptions
    /\ Method = "api" \/ (Method = "auto" /\ ~input.git.runs)
ResolvesToGit ==
    /\ ValidOptions
    /\ Method = "git" \/ (Method = "auto" /\ input.git.runs)

\* The git on the machine is adequate: its version is at least 2.25.0 or
\* cannot be parsed.
Adequate ==
    /\ input.git.runs
    /\ \/ Len(input.git.stdout) # 4
       \/ input.git.stdout[2] > 2
       \/ input.git.stdout[2] = 2 /\ input.git.stdout[3] >= 25

\* ---- C1
\* C1 as stated: a returned retrieve has failed with the mode/method
\* ConfigurationError exactly when the requested method is api and the mode
\* is repo.
C1_AsStated ==
    (ValidOptions /\ Returned) =>
        (outcome = Fail("ConfigurationError")
            <=> (Method = "api" /\ Mode = "repo"))

\* C1 amended: a returned retrieve has failed with the mode/method
\* ConfigurationError exactly when the mode is repo and the strategy resolves
\* to RemoteApi, that is, the requested method is api, or it is auto and git
\* is not available.
C1_ConfigurationError ==
    (ValidOptions /\ Returned) =>
        (outcome = Fail("ConfigurationError")
            <=> (ResolvesToApi /\ Mode = "repo"))

\* The case of C1: method auto, git unavailable, mode repo has failed.
C1_Witness ==
    /\ Returned
    /\ Method = "auto"
    /\ Mode = "repo"
    /\ outcome = Fail("ConfigurationError")

\* ---- C2
NonEmptyNoForce ==
    /\ ValidOptions
    /\ input.dest0.kind = "dir"
    /\ input.dest0.entries # {}
    /\ ~input.force

\* Strategy selection passes: an adequate git when git is the strategy, and
\* not repo mode with the API strategy.
SelectionPasses ==
    \/ ResolvesToGit /\ Adequate
    \/ ResolvesToApi /\ Mode = "extract"

\* C2 as stated: with a non-empty destination and no force, a returned
\* retrieve has failed with DestinationConflict, no network request or
\* subprocess (the git version probe included) was started, and the
\* destination is unchanged. (Stated for the calls whose strategy selection
\* passes, where no other failure can come first.)
C2_AsStated ==
    (NonEmptyNoForce /\ SelectionPasses /\ Returned) =>
        /\ outcome = Fail("DestinationConflict")
        /\ trace = << >>
        /\ dest = input.dest0

\* C2 amended: with a non-empty destination and no force, retrieve never gets
\* past the destination check: nothing but `git --version` probes is ever
\* spawned, no network request is issued, the destination stays as it was,
\* and the call fails with DestinationConflict when strategy selection
\* passes, and with ToolNotFound, ToolTooOld or ConfigurationError when
\* strategy selection fails first.
C2_DestinationConflict ==
    NonEmptyNoForce =>
        /\ pc \in {"start", "probe", "ensure", "destCheck", "failed"}
        /\ \A k \in 1..Len(trace) : trace[k] = Probe
        /\ dest = input.dest0
        /\ dl_pc = "idle"
        /\ gitStep = 0
        /\ Returned =>
             /\ outcome \in { Fail("DestinationConflict"), Fail("ToolNotFound"),
                              Fail("ToolTooOld"), Fail("ConfigurationError") }
             /\ outcome = Fail("DestinationConflict") <=> SelectionPasses

\* The case of C2: the conflict was raised, after the probe.
C2_Witness ==
    /\ NonEmptyNoForce
    /\ Returned
    /\ outcome = Fail("DestinationConflict")
    /\ Len(trace) >= 1

\* ---- C3
\* C3 as stated: the mode/method ConfigurationError is raised before any
\* subprocess (`git --version` included) or network request is started and
\* before the destination is touched.
C3_AsStated ==
    (Returned /\ outcome = Fail("ConfigurationError")) =>
        /\ trace = << >>
        /\ dest = input.dest0

\* C3 amended: when repo mode meets the RemoteApi strategy, retrieve fails
\* with ConfigurationError right after the git availability probe: that one
\* `git --version` is the only subprocess, no network request is issued, no
\* fetch operation is started and the destination is not touched.
C3_FailsFast ==
    (ResolvesToApi /\ Mode = "repo") =>
        /\ pc \in {"start", "probe", "failed"}
        /\ trace = IF pc = "start" THEN << >> ELSE << Probe >>
        /\ dest = input.dest0
        /\ dl_pc = "idle"
        /\ gitStep = 0
        /\ ~tmpRoot
        /\ Returned => outcome = Fail("ConfigurationError")

\* The case of C3: method api with mode repo has failed, and the probe ran.
C3_Witness ==
    /\ Returned
    /\ Method = "api"
    /\ Mode = "repo"
    /\ outcome = Fail("ConfigurationError")
    /\ trace = << Probe >>

\* ---- C4
\* C4 as stated: with method auto the strategy is git exactly when git is
\* available and adequate; otherwise it is the API strategy, and the call
\* does not fail because of git.
C4_AsStated ==
    (ValidOptions /\ Method = "auto" /\ Returned /\ chosen # "none") =>
        /\ chosen = "git" <=> Adequate
        /\ chosen = "api" <=> ~Adequate
        /\ outcome \notin {Fail("ToolTooOld"), Fail("ToolNotFound")}

\* C4 amended: with method auto the strategy is git exactly when git is
\* available (`git --version` can be invoked), whatever its version, and the
\* API strategy otherwise, which (in extract mode) performs the API download
\* and runs no git step; an available git that is too old keeps the git
\* strategy, and the call fails with ToolTooOld without any download.
C4_AutoResolution ==
    (ValidOptions /\ Method = "auto" /\ chosen # "none") =>
        /\ chosen = "git" <=> input.git.runs
        /\ chosen = "api" <=> ~input.git.runs
        /\ chosen = "api" =>
             /\ gitStep = 0
             /\ \A k \in 1..Len(trace) : trace[k] \notin {Spawn(GitSteps[1])}
             /\ pc \in {"post", "finalize", "done"} => result = Ok
        /\ chosen = "git" =>
             /\ dl_pc = "idle"
             /\ ~Adequate =>
                  /\ pc \in {"ensure", "failed"}
                  /\ Returned => outcome = Fail("ToolTooOld")

\* The case of C4: method auto with a git that is available but too old has
\* failed with ToolTooOld.
C4_Witness ==
    /\ ValidOptions
    /\ Method = "auto"
    /\ input.git.runs
    /\ ~Adequate
    /\ Returned
    /\ outcome = Fail("ToolTooOld")

\* ---- C5
\* What a retrieval writes into the destination.
Retrieved ==
    {".git", "samples", "sample"} \cup {AllPaths[i] : i \in 1..Len(AllPaths)}

\* C5: without force nothing of the destination is ever removed; with force
\* and an existing destination, a successful retrieve leaves a directory
\* that holds newly retrieved content and none of its previous entries.
C5_OverwriteOnlyOnForce ==
    Retrieving =>
        /\ ~input.force =>
             /\ input.dest0.entries \subseteq dest.entries
             /\ pathExists(input.dest0) => dest.kind = input.dest0.kind
        /\ (input.force /\ pathExists(input.dest0) /\ outcome = Ok) =>
             /\ dest.kind = "dir"
             /\ dest.entries # {}
             /\ dest.entries \subseteq Retrieved
             /\ dest.entries \cap input.dest0.entries = {}

\* The case of C5: a forced retrieve over a non-empty destination succeeded.
C5_Witness ==
    /\ Retrieving
    /\ input.force
    /\ input.dest0.entries # {}
    /\ outcome = Ok

\* ---- C6
\* The file downloads that have started and not yet settled.
InFlight == { i \in 1..Len(task) : task[i].st \in {"fetching", "writing"} }
Failed == { i \in 1..Len(task) : task[i].st = "failed" }
Succeeded == { i \in 1..Len(task) : task[i].st = "ok" }

\* C6: at any moment at most `concurrency` file downloads have started and
\* not yet settled.
C6_BoundedConcurrency == Cardinality(InFlight) <= Concurrency

\* The case of C6: more files than slots, every slot taken, a file waiting,
\* and a download has already failed.
C6_Witness ==
    /\ Concurrency >= 1
    /\ Len(blobs) > Concurrency
    /\ Cardinality(InFlight) = Concurrency
    /\ queue # << >>
    /\ Failed # {}

\* ---- C7
\* C7: as soon as a file download has failed, downloadSubtree has failed
\* with the failure of the download that failed first, whatever the other
\* downloads do; and it has succeeded only if every file entry was
\* downloaded and written.
C7_AllOrNothing ==
    /\ firstFailed # 0 =>
         /\ task[firstFailed].st = "failed"
         /\ result = Res(task[firstFailed].err, blobs[firstFailed].path)
    /\ Failed # {} => (firstFailed \in Failed /\ result \notin {Pending, Ok})
    /\ result = Ok =>
         /\ Len(blobs) >= 1
         /\ Len(task) = Len(blobs)
         /\ \A i \in 1..Len(blobs) :
              task[i].st = "ok" /\ blobs[i].path \in dest.entries

\* The case of C7: one download failed on its HTTP status or on its write,
\* every other one succeeded, and the operation failed with that failure.
C7_Witness ==
    /\ Cardinality(Failed) = 1
    /\ Cardinality(Succeeded) = Len(blobs) - 1
    /\ Len(blobs) >= 2
    /\ result.kind \in {"DownloadError", "WriteError"}

\* ---- C8
Requests == { k \in 1..Len(trace) : trace[k].op \in {"tree", "raw"} }

\* downloadSampleViaGitHubSubtree was called with the signal.
Downloading == input.entry = "download"

\* C8 as stated, for what happens after the signal is cancelled while the
\* operation is under way and has not failed: the operation fails with
\* Cancelled (so it never succeeds and never fails with anything else); and
\* with an already cancelled signal it fails with Cancelled, nothing
\* requested.
C8_AsStated ==
    /\ (Downloading /\ input.preAborted /\ dl_pc # "call") =>
         (result = Fail("Cancelled") /\ Requests = {})
    /\ abortedAt \in {"lookup", "mkdir", "fetching", "writing"} =>
         result.kind \in {"pending", "Cancelled"}

\* C8 amended: with an already cancelled signal downloadSubtree fails with
\* Cancelled and requests nothing; once the signal is cancelled no further
\* request (tree lookup or file content) is started; and the operation
\* fails with Cancelled when, at the cancellation, it had not failed yet and
\* a tree lookup or a file content request was in flight. (A cancellation
\* that arrives when every started download is past its request, in its
\* write, does not stop the writes: the operation may still succeed or fail
\* with a write error.)
C8_Cancellation ==
    /\ [](/\ (Downloading /\ input.preAborted /\ dl_pc # "call") =>
                (result = Fail("Cancelled") /\ Requests = {})
          /\ abortedAt \in {"lookup", "fetching"} => result.kind = "Cancelled"
          /\ aborted => \A i \in 1..Len(task) : task[i].st # "fetching")
    /\ [][(Downloading /\ aborted') => trace' = trace]_vars

\* The case of C8: the signal was cancelled with a request in flight, the
\* operation failed with Cancelled, and a download that was waiting behind
\* the semaphore was never requested.
C8_Witness ==
    /\ abortedAt = "fetching"
    /\ result.kind = "Cancelled"
    /\ \E i \in Failed :
         /\ task[i].err = "Cancelled"
         /\ \A k \in 1..Len(trace) : trace[k] # GetRaw(blobs[i].path)

\* ---- C9
\* The file-kind entries of the recursive listing.
FileEntries ==
    IF Len(trees) < 3 THEN {}
    ELSE { k \in 1..Len(trees[3].tree) : trees[3].tree[k].type = "blob" }

\* C9: onProgress was called once for each file written and for no other;
\* the k-th call carries completedCount k and, as totalCount, the number of
\* file-kind entries, which completedCount never exceeds.
C9_Progress ==
    /\ Len(progress) = Cardinality(Succeeded)
    /\ { progress[k].file : k \in 1..Len(progress) }
         = { blobs[i].path : i \in Succeeded }
    /\ \A k \in 1..Len(progress) :
         /\ progress[k].done = k
         /\ progress[k].total = Cardinality(FileEntries)
         /\ progress[k].done <= progress[k].total
    /\ done = Len(progress)

\* The case of C9: two files were reported, a third download failed, and
\* the listing holds a directory entry besides the files.
C9_Witness ==
    /\ Len(progress) >= 2
    /\ Failed # {}
    /\ Cardinality(FileEntries) < Len(trees[3].tree)

\* ---- C10
HasDirectory(tree, name) ==
    \E k \in 1..Len(tree) : tree[k].type = "tree" /\ tree[k].path = name
Listed(res) == res.status = 200 /\ res.json /\ ~res.message
Written == dest.entries \cap {AllPaths[i] : i \in 1..Len(AllPaths)}
NothingFetched ==
    /\ \A k \in 1..Len(trace) : trace[k].op # "raw"
    /\ Written = {}
    /\ task = << >>

\* C10: a root listing without a directory entry "samples" gives NotFound, a
\* samples listing without a directory entry of the sample folder's name
\* gives NotFound, a truncated recursive listing gives TruncatedListing, and
\* a recursive listing without file-kind entries gives EmptySample; each
\* without a file content request and without a file written.
C10_ListingFailures ==
    /\ (Len(trees) >= 1 /\ Listed(trees[1])
            /\ ~HasDirectory(trees[1].tree, "samples")) =>
         (Len(trees) = 1 /\ result = Res("NotFound", "samples"))
    /\ (Len(trees) >= 2 /\ Listed(trees[2])
            /\ ~HasDirectory(trees[2].tree, SampleFolder)) =>
         (Len(trees) = 2 /\ result = Res("NotFound", SampleFolder))
    /\ (Len(trees) = 3 /\ Listed(trees[3]) /\ trees[3].truncated) =>
         result = Fail("TruncatedListing")
    /\ (Len(trees) = 3 /\ Listed(trees[3]) /\ ~trees[3].truncated
            /\ FileEntries = {}) =>
         result = Fail("EmptySample")
    /\ result.kind \in {"NotFound", "TruncatedListing", "EmptySample"} =>
         NothingFetched

\* The case of C10: the recursive listing holds a directory entry and no
\* file, and the download failed with EmptySample.
C10_Witness ==
    /\ Len(trees) = 3
    /\ Len(trees[3].tree) >= 1
    /\ result = Fail("EmptySample")

\* ---- C11
\* The tree lookups that have settled with a response.
Lookups == 1..Len(trees)
Successful(res) == res.status \in 200..299

\* C11 as stated: a lookup answered by a response that is not successful
\* fails with RateLimited exactly when the status is 403 and the
\* rate-limit-remaining header reads "0", and with RemoteApiError otherwise,
\* whatever the body is.
C11_AsStated ==
    \A k \in Lookups :
        ~Successful(trees[k]) =>
            /\ k = Len(trees)
            /\ result.kind = IF trees[k].status = 403 /\ trees[k].rl0
                             THEN "RateLimited" ELSE "RemoteApiError"

\* C11 amended: the body is parsed as JSON before the status is looked at.
\* A response whose body does not parse fails with the parse error whatever
\* its status and headers; a response that is not successful and whose body
\* parses fails with RateLimited exactly when the status is 403 and the
\* rate-limit-remaining header reads "0", and otherwise with RemoteApiError
\* carrying the body's message when it has one and the status line when it
\* has none; a listing is returned (the download goes on to use it) only for
\* a successful response with a parsable body.
C11_FetchTreeErrors ==
    \A k \in Lookups :
        LET res == trees[k] IN
        /\ ~res.json => (k = Len(trees) /\ result = Fail("SyntaxError"))
        /\ (res.json /\ ~Successful(res)) =>
              /\ k = Len(trees)
              /\ (res.status = 403 /\ res.rl0) <=> result = Fail("RateLimited")
              /\ ~(res.status = 403 /\ res.rl0) =>
                    result = Res("RemoteApiError",
                                 IF res.message THEN "data.message"
                                 ELSE "status statusText")
        /\ k < Len(trees) => (Successful(res) /\ res.json)
        /\ result.kind \in {"RateLimited", "RemoteApiError"} /\ k = Len(trees) =>
              (res.json /\ (~Successful(res) \/ res.message))

\* The case of C11: a lookup was answered 403 with the rate-limit-remaining
\* header "0" and a body that is no JSON, and failed with the parse error.
C11_Witness ==
    /\ Len(trees) >= 1
    /\ trees[Len(trees)].status = 403
    /\ trees[Len(trees)].rl0
    /\ ~trees[Len(trees)].json
    /\ result = Fail("SyntaxError")

\* ---- C12
\* The subprocesses of the sparse steps among the spawned ones, in order.
IsSparseStep(e) == e.op = "spawn" /\ e.arg # "git --version"
Started == SelectSeq(trace, IsSparseStep)

\* C12: the sparse steps are started in the order clone, sparse-checkout
\* init, sparse-checkout set, fetch, checkout, each at most once; a step is
\* started only after the one before it exited with code 0, and the
\* verification runs only after the checkout exited with code 0; after a
\* step failed (nonzero exit, spawn error, or the verification finding the
\* sample directory missing or empty) nothing further was started and the
\* operation has failed, with ToolInvocationError or SampleNotFound.
C12_StepOrder ==
    /\ Len(Started) <= Len(GitSteps)
    /\ \A k \in 1..Len(Started) : Started[k] = Spawn(GitSteps[k])
    /\ \A k \in 2..Len(Started) : Len(exits) >= k - 1 /\ exits[k - 1] = 0
    /\ Len(exits) <= Len(Started) + 1
    /\ Len(exits) = Len(GitSteps) + 1 =>
         \A k \in 1..Len(GitSteps) : exits[k] = 0
    /\ gitStep # 0 => (gitStep = Len(Started) /\ Len(exits) = gitStep - 1)
    /\ \A k \in 1..Len(exits) :
         exits[k] # 0 =>
            /\ k = Len(exits)
            /\ Len(Started) = IF k > Len(GitSteps) THEN Len(GitSteps) ELSE k
            /\ gitStep = 0
            /\ pc = "failed"
            /\ outcome = Fail(IF k > Len(GitSteps) THEN "SampleNotFound"
                              ELSE "ToolInvocationError")

\* The case of C12: the third step (sparse-checkout set) failed after the
\* first two exited 0, and the operation failed with three steps started.
C12_Witness ==
    /\ Len(exits) = 3
    /\ exits[3] # 0
    /\ Len(Started) = 3
    /\ outcome = Fail("ToolInvocationError")

\* ---- C13
\* The extract variant has created its temporary root and has returned.
ExtractOver ==
    /\ input.mode = Some("extract")
    /\ chosen = "git"
    /\ Len(Started) >= 1
    /\ pc \notin {"git", "copy"}

\* What the body of the extract's try produced: the failure of a step or of
\* the copy, or success.
TryOutcome ==
    IF \E k \in 1..Len(exits) : exits[k] # 0
    THEN IF Len(exits) > Len(GitSteps)
         THEN Fail("SampleNotFound") ELSE Fail("ToolInvocationError")
    ELSE IF "sample" \in dest.entries THEN Ok ELSE Fail("IOError")

\* C13 as stated: once the extract variant has returned, its temporary root
\* is gone, on every path.
C13_AsStated == ExtractOver => ~tmpRoot

\* C13 amended: on every path on which the temporary root was created
\* (success, failure of a git step, of the verification or of the copy,
\* with or without a cancellation) exactly one removal of it has been
\* attempted by the time the extract returns, and none before; the root is
\* gone when that removal succeeded and is left behind when it failed; and
\* the outcome of the extract is that of its steps and copy whether or not
\* the removal failed.
C13_TmpCleanup ==
    /\ ExtractOver => (Len(rmTmp) = 1 /\ tmpRoot = ~rmTmp[1])
    /\ ~ExtractOver =>
         /\ rmTmp = << >>
         /\ tmpRoot <=> (input.mode = Some("extract") /\ Len(Started) >= 1)
    /\ (input.entry = "sparse" /\ ExtractOver) => outcome = TryOutcome
    /\ (input.entry = "retrieve" /\ ExtractOver /\ TryOutcome # Ok) =>
         (pc = "failed" /\ outcome = TryOutcome)
    /\ (input.entry = "retrieve" /\ ExtractOver /\ TryOutcome = Ok) =>
         Len(calls) >= 2

\* The case of C13: the extract succeeded under a cancelled signal, and the
\* removal of its temporary root failed, leaving the root behind.
C13_Witness ==
    /\ input.entry = "sparse"
    /\ aborted
    /\ outcome = Ok
    /\ rmTmp = << FALSE >>
    /\ tmpRoot

\* ---- C14
\* The tree lookups, file content requests and git steps attempted so far.
Attempts == { k \in 1..Len(trace) : trace[k] # Probe }

\* A tree lookup, a file download or a git step of the invocation failed.
SomethingFailed ==
    \/ \E k \in Lookups : fetchJson(trees[k]) # "ok"
    \/ firstFailed # 0
    \/ \E k \in 1..Len(exits) : exits[k] # 0

\* C14: no tree lookup, file content request or git step is attempted
\* twice (there are at most three lookups, one request per file entry and
\* one subprocess per git step); a failed file download is never started
\* again; once a lookup, a file download or a git step failed, the
\* operation it belongs to has failed, the failure it reports never
\* changes, and retrieve returns that failure.
C14_NoRetries ==
    /\ [](/\ \A j, k \in Attempts : trace[j] = trace[k] => j = k
          /\ Cardinality({ k \in Attempts : trace[k].op = "tree" }) <= 3
          /\ Cardinality({ k \in Attempts : trace[k].op = "raw" }) <= Len(blobs)
          /\ SomethingFailed =>
                (result.kind \notin {"pending", "ok"} \/
                 outcome.kind \notin {"pending", "ok"})
          /\ (input.entry = "retrieve" /\ SomethingFailed /\ Returned) =>
                (outcome.kind \notin {"pending", "ok"}
                   /\ (dl_pc # "idle" => outcome = result)))
    /\ [][/\ result.kind \notin {"pending", "ok"} => result' = result
          /\ outcome.kind \notin {"pending", "ok"} => outcome' = outcome
          /\ \A i \in 1..Len(task) :
               task[i].st = "failed" => task'[i] = task[i]]_vars

\* The case of C14: in a retrieve, one file download failed while another
\* file was still to be written; retrieve has returned that failure and the
\* failed file was requested once.
C14_Witness ==
    /\ input.entry = "retrieve"
    /\ firstFailed # 0
    /\ Returned
    /\ outcome = result
    /\ outcome.kind = "DownloadError"
    /\ Cardinality({ k \in Attempts : trace[k] = GetRaw(blobs[firstFailed].path) }) = 1

\* ---- C15
FetchOps == {"download", "fetchSparse", "sparseClone"}

\* The fetch operation of the resolved strategy and mode.
FetchOp ==
    IF chosen = "api" THEN "download"
    ELSE IF Mode = "extract" THEN "fetchSparse" ELSE "sparseClone"

\* The fetch operation that was invoked has succeeded.
FetchSucceeded ==
    IF chosen = "api" THEN result = Ok
    ELSE /\ exits = [k \in 1..(Len(GitSteps) + 1) |-> 0]
         /\ Mode = "extract" => "sample" \in dest.entries

\* C15: retrieve invokes, in this order, one fetch operation, the identity
\* rewrite (postProcess) and the handoff (finalize), and nothing else: the
\* fetch only once the strategy is resolved, and it is the API download for
\* the api strategy, the sparse extract for git in extract mode and the
\* sparse repo clone for git in repo mode, invoked exactly once in every run
\* that gets past the destination check and never twice; the rewrite only
\* after the fetch succeeded; finalize only after the rewrite succeeded; in
\* repo mode the rewrite and finalize are given destDir/samples/<folder>,
\* otherwise destDir.
C15_PhaseOrder ==
    input.entry = "retrieve" =>
        /\ Len(calls) <= 3
        /\ Len(calls) >= 1 =>
             /\ chosen \in {"git", "api"}
             /\ Probe \in {trace[k] : k \in 1..Len(trace)}
             /\ calls[1] = Call(FetchOp, DestDir)
        /\ LET fetches == { k \in 1..Len(calls) : calls[k].op \in FetchOps } IN
             /\ Cardinality(fetches) <= 1
             /\ pc \in {"start", "probe", "ensure", "destCheck", "fetch"} =>
                  fetches = {}
             /\ (pc \in {"download", "git", "copy", "post", "finalize", "done"}
                  \/ dl_pc # "idle" \/ Started # << >>) =>
                  Cardinality(fetches) = 1
        /\ Len(calls) >= 2 =>
             /\ FetchSucceeded
             /\ calls[2] = Call("postProcess",
                                IF Mode = "repo" THEN SamplePath ELSE DestDir)
        /\ Len(calls) = 3 =>
             /\ pc \in {"finalize", "done"}
             /\ input.newid # "invalid"
             /\ calls[3] = Call("finalize",
                                IF Mode = "repo" THEN SamplePath ELSE DestDir)
        /\ pc = "post" => Len(calls) = 2
        /\ pc \in {"finalize", "done"} => Len(calls) = 3

\* The case of C15: a retrieve in repo mode has returned successfully after
\* the sparse repo clone, the rewrite and finalize on the sample's path.
C15_Witness ==
    /\ input.entry = "retrieve"
    /\ Mode = "repo"
    /\ pc = "done"
    /\ calls = << Call("sparseClone", DestDir), Call("postProcess", SamplePath),
                  Call("finalize", SamplePath) >>

\* ---- C16
\* The canonical textual form of a UUID: hex digits in groups of 8, 4, 4, 4
\* and 12.
CanonicalForm(v) == v.lens = << 8, 4, 4, 4, 12 >> /\ v.hex

\* postProcessProject was given, as a string, an identifier that (blanks
\* around it aside) has not the canonical form.
MalformedIdSupplied ==
    /\ rn_in.entry = "postProcess"
    /\ rn_in.newid.kind = "string"
    /\ ~CanonicalForm(rn_in.newid.v)

\* C16: when postProcessProject is given an identifier that has not the
\* canonical UUID form, no project file is ever written and the project is
\* as it was, with or without a rename in the same call, and once the call
\* has returned it has failed with InvalidIdentifier.
C16_InvalidIdentifier ==
    MalformedIdSupplied =>
        /\ written = {}
        /\ project = rn_in.project
        /\ rn_pc \in {"post", "failed"}
        /\ rn_pc = "failed" => rn_out = "InvalidIdentifier"

\* The case of C16: "not-a-guid" was supplied together with a rename, and
\* the call failed with InvalidIdentifier.
C16_Witness ==
    /\ MalformedIdSupplied
    /\ rn_in.newid.v = NotAGuid
    /\ Truthy(TrimmedRename(rn_in.rename))
    /\ rn_out = "InvalidIdentifier"

\* ---- C17
\* renameSpfxProject has run to its end.
Renamed == rn_pc = "done" /\ rn_out = "ok" /\ (Truthy(opts.rename) \/ opts.newId # Undefined)

\* A new name, respectively a new identifier, was given to it.
NameGiven == opts.rename # Undefined /\ opts.rename[1] # << >>
IdGiven == opts.newId # Undefined

\* The project before the rewrite, and whether all its files are there with
\* their sections and string fields.
Before == rn_in.project
AllPresent ==
    /\ Before.pkg.st = "json" /\ Before.pkg.name # Undefined
    /\ Before.yo.st = "json" /\ Before.yo.gen
    /\ Before.yo.libraryName # Undefined /\ Before.yo.solutionName # Undefined
    /\ Before.yo.libraryId # Undefined
    /\ Before.ps.st = "json" /\ Before.ps.solution
    /\ Before.ps.name # Undefined /\ Before.ps.id # Undefined
    /\ Before.daz.st = "json" /\ Before.daz.container # Undefined
    /\ Before.readme.st = "text"

\* C17: after renameSpfxProject with new name N and identifier G on a
\* project whose files are all present, the package name, the generator's
\* libraryName and solutionName and the container equal N (nothing of the
\* previous value is kept) and the generator's libraryId and the manifest
\* id equal G; with only a name no identifier field changes, and with only
\* an identifier no name field and no text changes. In any project, a field
\* is set only where its file parses, its section is there and (the package
\* name apart) the field was a string.
C17_VerbatimFields ==
    Renamed =>
        /\ (AllPresent /\ NameGiven) =>
              /\ project.pkg.name = opts.rename
              /\ project.yo.libraryName = opts.rename
              /\ project.yo.solutionName = opts.rename
              /\ project.daz.container = opts.rename
        /\ (AllPresent /\ IdGiven) =>
              /\ project.yo.libraryId = opts.newId
              /\ project.ps.id = opts.newId
        /\ ~IdGiven =>
              /\ project.yo.libraryId = Before.yo.libraryId
              /\ project.ps.id = Before.ps.id
        /\ ~NameGiven =>
              /\ project.pkg.name = Before.pkg.name
              /\ project.yo.libraryName = Before.yo.libraryName
              /\ project.yo.solutionName = Before.yo.solutionName
              /\ project.ps.name = Before.ps.name
              /\ project.daz.container = Before.daz.container
              /\ project.readme = Before.readme
        /\ NameGiven =>
              /\ Before.pkg.st = "json" => project.pkg.name = opts.rename
              /\ project.yo.libraryName =
                   IF Before.yo.st = "json" /\ Before.yo.gen
                      /\ Before.yo.libraryName # Undefined
                   THEN opts.rename ELSE Before.yo.libraryName
              /\ project.yo.solutionName =
                   IF Before.yo.st = "json" /\ Before.yo.gen
                      /\ Before.yo.solutionName # Undefined
                   THEN opts.rename ELSE Before.yo.solutionName
              /\ project.daz.container =
                   IF Before.daz.st = "json" /\ Before.daz.container # Undefined
                   THEN opts.rename ELSE Before.daz.container
        /\ IdGiven =>
              /\ project.yo.libraryId =
                   IF Before.yo.st = "json" /\ Before.yo.gen
                      /\ Before.yo.libraryId # Undefined
                   THEN opts.newId ELSE Before.yo.libraryId
              /\ project.ps.id =
                   IF Before.ps.st = "json" /\ Before.ps.solution
                      /\ Before.ps.id # Undefined
                   THEN opts.newId ELSE Before.ps.id

\* The case of C17: the sample's project was renamed to "n" with a new
\* identifier, and the generator's solutionName "ab S" became "n".
C17_Witness ==
    /\ Renamed
    /\ Before = SampleProject
    /\ opts.rename = Some(<< "n" >>)
    /\ opts.newId = Some(NewId)
    /\ project.yo.solutionName = Some(<< "n" >>)
    /\ project.ps.id = Some(NewId)

\* ---- C18
\* The text with every occurrence of the name `old` (found from left to
\* right, as literal text) replaced by the text `new`, taken literally.
RECURSIVE LiteralReplaceFrom(_, _, _, _)
LiteralReplaceFrom(text, i, old, new) ==
    IF i > Len(text) THEN << >>
    ELSE IF i + Len(old) - 1 <= Len(text) /\ SubSeq(text, i, i + Len(old) - 1) = old
    THEN new \o LiteralReplaceFrom(text, i + Len(old), old, new)
    ELSE << text[i] >> \o LiteralReplaceFrom(text, i + 1, old, new)
LiteralReplace(text, old, new) == LiteralReplaceFrom(text, 1, old, new)

\* The previous name: the package descriptor's name before the rewrite.
PreviousName ==
    IF Before.pkg.st = "json" THEN Before.pkg.name ELSE Undefined
PreviousNameKnown == PreviousName # Undefined /\ PreviousName[1] # << >>

\* The manifest is there with a solution whose name is a string.
ManifestNamed ==
    Before.ps.st = "json" /\ Before.ps.solution /\ Before.ps.name # Undefined

\* C18 as stated: after a rename, the manifest's solution name is its
\* previous value with every occurrence of the previous package name, taken
\* as literal text, replaced by the new name, everything else kept; so a
\* name without the previous name in it is unchanged.
C18_AsStated ==
    (Renamed /\ NameGiven /\ PreviousNameKnown /\ ManifestNamed) =>
        project.ps.name =
            Some(LiteralReplace(Before.ps.name[1], PreviousName[1], opts.rename[1]))

\* ---- C19
\* C19 as stated: after a rename that wrote the README, the README is its
\* previous text with every occurrence of the previous package name
\* replaced by the new name taken as literal text; and a README without an
\* occurrence of the previous name is not written.
C19_AsStated ==
    (Renamed /\ NameGiven /\ PreviousNameKnown /\ Before.readme.st = "text") =>
        /\ "readme" \in written =>
              project.readme.text =
                  LiteralReplace(Before.readme.text, PreviousName[1], opts.rename[1])
        /\ LiteralReplace(Before.readme.text, PreviousName[1], << "#" >>)
              = Before.readme.text => "readme" \notin written

\* ---- C20
\* A file the rewrite cannot use: missing, or not parsable.
Unusable(f) == Before[f].st \in {"absent", "bad"}
JsonFiles == {"pkg", "yo", "ps", "daz"}
Rewriting == rn_in.entry # "none"

\* What the rewrite leaves of a project whose package descriptor is
\* unusable: the manifest name and the README as they were, the generator
\* config names, the container and the identifier fields updated.
UnknownPreviousName ==
    /\ oldName = Undefined
    /\ project.ps.name = Before.ps.name
    /\ project.readme = Before.readme
    /\ "readme" \notin written
    /\ NameGiven =>
          /\ (Before.yo.st = "json" /\ Before.yo.gen) =>
                /\ Before.yo.libraryName # Undefined =>
                      project.yo.libraryName = opts.rename
                /\ Before.yo.solutionName # Undefined =>
                      project.yo.solutionName = opts.rename
          /\ (Before.daz.st = "json" /\ Before.daz.container # Undefined) =>
                project.daz.container = opts.rename
    /\ IdGiven =>
          /\ (Before.yo.st = "json" /\ Before.yo.gen /\ Before.yo.libraryId # Undefined) =>
                project.yo.libraryId = opts.newId
          /\ (Before.ps.st = "json" /\ Before.ps.solution /\ Before.ps.id # Undefined) =>
                project.ps.id = opts.newId

\* C20: renameSpfxProject never fails at a well-known file that is missing
\* or unparsable (a step fails only at the write of a file it has parsed),
\* a missing or unparsable file is left as it is and never written; and
\* when package.json is missing or unparsable the previous name is unknown:
\* the manifest name and the README stay unchanged while the generator
\* config names, the container and the identifier fields are updated.
C20_MissingFiles ==
    /\ [](Rewriting =>
            /\ \A f \in FileNames :
                  Unusable(f) => project[f] = Before[f] /\ f \notin written
            /\ (Renamed /\ Unusable("pkg")) => UnknownPreviousName)
    /\ [][(Rewriting /\ rn_pc' = "failed" /\ rn_out' # "InvalidIdentifier") =>
            rn_pc \in JsonFiles /\ ~Unusable(rn_pc)]_vars

\* A rename with a new name and identifier has gone through a project
\* without package.json whose manifest and README hold text, and whose
\* generator config and deployment config were updated.
C20_Witness ==
    /\ Renamed /\ NameGiven /\ IdGiven
    /\ Before.pkg.st = "absent"
    /\ Before.ps.st = "json" /\ Before.ps.name = Some(Occurrences(Ab, 2))
    /\ Before.readme.st = "text" /\ Before.readme.text = Occurrences(Ab, 1)
    /\ project.ps.name = Before.ps.name /\ project.ps.id = opts.newId
    /\ project.readme = Before.readme
    /\ project.yo.libraryName = opts.rename
    /\ project.yo.libraryName # Before.yo.libraryName
    /\ project.daz.container = opts.rename

\* ---- C21
\* renameSpfxProject was called twice with the same options and returned
\* both times.
AppliedTwice == Len(applied) = 2
DollarFreeName ==
    opts.rename = Undefined \/ \A k \in 1..Len(opts.rename[1]) : opts.rename[1][k] # "$"

\* C21 as stated: for every project, new name and valid identifier,
\* applying renameSpfxProject twice leaves every project file in the state
\* one application leaves it in.
C21_AsStated == AppliedTwice => applied[2] = applied[1]

\* ---- C22
\* normalizeSampleArg has been applied to x and then to its own result.
Normalized == u_in.entry = "normalize" /\ u_pc = "done"
NoBackslash(t) == \A i \in 1..Len(t) : t[i] # "\\"
LeadingBlank(t) == t # << >> /\ t[1] = " "

\* C22 as stated: every backslash becomes a forward slash, at most one
\* leading "samples/" is stripped, and normalizing the result again gives
\* the result back.
C22_AsStated ==
    Normalized =>
        /\ NoBackslash(u_out.once)
        /\ \/ u_out.once = Trim(Slashes(u_in.x))
           \/ SamplesPrefix \o u_out.once = Trim(Slashes(u_in.x))
        /\ u_out.twice = u_out.once

\* C22: normalizeSampleArg turns every backslash into a forward slash,
\* trims, and then strips one leading "samples/" when there is one and
\* nothing otherwise; normalizing the result again gives the result back
\* exactly when the result starts neither with "samples/" nor with a blank.
C22_Normalize ==
    Normalized =>
        LET t == Trim(Slashes(u_in.x)) IN
        /\ NoBackslash(u_out.once)
        /\ IF startsWith(t, SamplesPrefix)
           THEN SamplesPrefix \o u_out.once = t
           ELSE u_out.once = t
        /\ u_out.twice = u_out.once <=>
              ~startsWith(u_out.once, SamplesPrefix) /\ ~LeadingBlank(u_out.once)

\* "samples\samples/a" was normalized to "samples/a", and that to "a".
C22_Witness ==
    /\ Normalized
    /\ u_in.x = << "samples", "\\", "samples", "/", "a" >>
    /\ u_out.once = << "samples", "/", "a" >>
    /\ u_out.twice = << "a" >>

\* ---- C23
\* getCommandHandler has resolved its destination and goes on to probe git
\* and fetch.
Resolved == u_in.entry = "resolve" /\ u_pc = "probe"

\* C23 as stated: the sample folder retrieve works with is never empty:
\* whatever the sample argument, a call that gets as far as a destination
\* has a non-empty folder path (any other call has failed before).
C23_AsStated == Resolved => u_out.sampleFolder # << >>

\* ---- C24
\* ensureGit has settled.
Ensured == u_in.entry = "ensureGit" /\ u_pc = "done"

\* The output holds "git version" followed by three numbers.
ThreePart(out) == Len(out) >= 4

\* A version below 2.25.0.
BelowMinimum(major, minor, patch) ==
    \/ major < 2
    \/ major = 2 /\ minor < 25
    \/ major = 2 /\ minor = 25 /\ patch < 0

\* C24: ensureGit fails with ToolNotFound exactly when `git --version`
\* cannot be run, with ToolTooOld exactly when it ran and its output holds
\* a three-part version below 2.25.0, and succeeds otherwise, in particular
\* when no version can be parsed from the output.
C24_EnsureGit ==
    Ensured =>
        LET out == u_in.git.stdout IN
        /\ u_out.result \in {"ok", "ToolNotFound", "ToolTooOld"}
        /\ u_out.result = "ToolNotFound" <=> ~u_in.git.runs
        /\ u_out.result = "ToolTooOld" <=>
              /\ u_in.git.runs
              /\ ThreePart(out)
              /\ BelowMinimum(out[2], out[3], out[4])

\* git ran and printed a version of two parts only: ensureGit succeeded.
C24_Witness ==
    /\ Ensured
    /\ u_in.git.runs
    /\ u_in.git.stdout = << "git version", 2, 24 >>
    /\ u_out.result = "ok"

\* ---- C25
\* versionGte has been applied to each pair of three version triples.
Compared == u_in.entry = "versionGte" /\ u_pc = "done"

\* (major, minor, patch) of v is lexicographically at least that of w.
LexGte(v, w) ==
    \/ v[1] > w[1]
    \/ v[1] = w[1] /\ v[2] > w[2]
    \/ v[1] = w[1] /\ v[2] = w[2] /\ v[3] >= w[3]

\* C25: versionGte(v, min) is true exactly when v is lexicographically at
\* least min; the relation is reflexive, transitive and total, and holds
\* both ways only between equal triples.
C25_VersionGte ==
    Compared =>
        /\ u_out.ab <=> LexGte(u_in.a, u_in.b)
        /\ u_out.ba <=> LexGte(u_in.b, u_in.a)
        /\ u_out.aa
        /\ (u_out.ab /\ u_out.bc) => u_out.ac
        /\ u_out.ab \/ u_out.ba
        /\ (u_out.ab /\ u_out.ba) => u_in.a = u_in.b

\* Triples that differ in the minor part only were compared: the greater is
\* at least the smaller, and not the other way round.
C25_Witness ==
    /\ Compared
    /\ u_in.a = << 1, 1, 0 >> /\ u_in.b = << 1, 0, 1 >> /\ u_in.c = << 0, 1, 1 >>
    /\ u_out.ab /\ ~u_out.ba /\ u_out.bc /\ u_out.ac

\* ---- C30
\* The path <cwd>/<name>.
UnderCwd(name) == << "cwd", "/" >> \o name

\* C30 as stated: the destination of a call with a non-empty sample folder
\* is the explicit dest when one is given, else <cwd>/<rename> when a new
\* name is given, else <cwd>/<sampleFolder> in extract mode and
\* <cwd>/<repo>-<sampleFolder>, the folder's slashes turned into dashes, in
\* repo mode.
C30_AsStated ==
    (Resolved /\ u_out.sampleFolder # << >>) =>
        u_out.destDir =
            IF Truthy(u_in.dest) THEN UnderCwd(u_in.dest[1])
            ELSE IF u_in.dest # Undefined THEN << "cwd" >>
            ELSE IF Truthy(u_in.rename) THEN UnderCwd(u_in.rename[1])
            ELSE IF assertMode(u_in.mode) = "extract"
            THEN UnderCwd(u_out.sampleFolder)
            ELSE UnderCwd(<< DEFAULT_REPO, "-" >> \o Dashes(u_out.sampleFolder))

\* ---- C26
\* The file downloads are under way, and download i settles in this step.
TasksPhase == Downloading /\ dl_pc = "tasks"
Settles(i) ==
    /\ i \in InFlight
    /\ task'[i].st \in {"ok", "failed"}

\* C26 as stated: once the operation has rejected, a file entry waiting in
\* the semaphore's queue is never requested (it stays queued, or is thrown
\* out without a request).
C26_AsStated ==
    [][(TasksPhase /\ result # Pending) =>
         \A i \in 1..Len(task) :
            task[i].st = "queued" => task'[i].st \in {"queued", "failed"}]_vars

\* C26: a failed download and the rejection of the operation do not stop the
\* loop. While the signal is not cancelled, a download that settles, by a
\* failure as by a success, before or after the operation has rejected,
\* hands its slot to the first queued file entry, whose content is requested
\* at once; the sibling downloads in flight are left as they are.
C26_KeepsScheduling ==
    [][(TasksPhase /\ ~aborted') =>
         \A i \in 1..Len(task) : Settles(i) =>
            /\ queue # << >> =>
                 /\ queue' = Tail(queue)
                 /\ task'[Head(queue)].st = "fetching"
                 /\ trace' = Append(trace, GetRaw(blobs[Head(queue)].path))
                 /\ running' = running
            /\ queue = << >> => (trace' = trace /\ running' = running - 1)
            /\ \A j \in InFlight \ {i} : task'[j] = task[j]]_vars

\* One download at a time: the first failed, the operation has rejected,
\* and the second file, queued behind it, was requested and written since.
C26_Witness ==
    /\ TasksPhase /\ ~aborted
    /\ Concurrency = 1
    /\ Len(task) >= 2
    /\ firstFailed = 1
    /\ result.kind = "DownloadError"
    /\ task[2].st = "ok"
    /\ blobs[2].path \in dest.entries

\* ---- C27
\* The file entries waiting in the queue.
Waiting == { i \in 1..Len(task) : task[i].st = "queued" }

\* C27: with max >= 1, if every started download settles, every scheduled
\* download starts; the waiting ones start in the order they were scheduled
\* (the queue holds exactly the waiting entries in that order and is only
\* ever taken from at its head, the entry taken being started); a slot is
\* taken exactly by the downloads in flight, so that a rejected download has
\* freed its slot as a fulfilled one has, and an entry never waits while a
\* slot is free. With max <= 0 no scheduled download ever starts and the
\* operation never settles.
C27_Semaphore ==
    /\ \A i \in 1..MaxFiles :
          (TasksPhase /\ Concurrency >= 1 /\ i \in Waiting) ~> (i \notin Waiting)
    /\ [](TasksPhase =>
            /\ { queue[k] : k \in 1..Len(queue) } = Waiting
            /\ \A k \in 1..Len(queue) - 1 : queue[k] < queue[k + 1]
            /\ running = Cardinality(InFlight)
            /\ queue # << >> => running = Concurrency
            /\ Concurrency <= 0 =>
                  /\ Waiting = 1..Len(task)
                  /\ result = Pending
                  /\ \A k \in 1..Len(trace) : trace[k].op # "raw")
    /\ [][TasksPhase =>
            \E k \in 0..Len(queue) :
               /\ queue' = SubSeq(queue, k + 1, Len(queue))
               /\ \A j \in 1..k : queue[j] \notin Waiting']_vars

\* One slot, three files: the first download was rejected, the second has
\* taken its slot, the third still waits.
C27_Witness ==
    /\ TasksPhase /\ ~aborted
    /\ Concurrency = 1
    /\ Len(task) = 3
    /\ task[1].st = "failed"
    /\ task[2].st = "fetching"
    /\ queue = << 3 >>

\* No slot at all: the files were scheduled and all of them wait.
C27_NoSlot ==
    /\ TasksPhase
    /\ Concurrency = 0
    /\ Len(task) = 3
    /\ queue = << 1, 2, 3 >>

\* ---- C28
\* The paths of the file-kind and of the directory-kind entries of the
\* sample's recursive listing.
FilePaths == { trees[3].tree[k].path : k \in FileEntries }
DirectoryPaths ==
    { trees[3].tree[k].path :
        k \in { n \in 1..Len(trees[3].tree) : trees[3].tree[n].type = "tree" } }
ContentRequests == { k \in 1..Len(trace) : trace[k].op = "raw" }

\* The content URL of the listing's entry at `rel`.
ContentUrl(rel) ==
    << "https://raw.githubusercontent.com", "owner", "repo", "ref",
       "samples", "react-hello-world", rel >>

\* C28: when downloadSubtree has succeeded, the paths written under destDir
\* are exactly the paths of the file-kind entries of the recursive listing,
\* each of them was requested exactly once, from the content URL of
\* samples/<sampleFolder>/<path>, and nothing else was requested: nothing
\* for a directory-kind entry.
C28_WrittenIsListed ==
    result = Ok =>
        /\ Written = FilePaths
        /\ \A f \in FilePaths :
              Cardinality({ k \in ContentRequests : trace[k].arg = ContentUrl(f) }) = 1
        /\ Cardinality(ContentRequests) = Cardinality(FilePaths)
        /\ \A d \in DirectoryPaths, k \in ContentRequests :
              trace[k].arg # ContentUrl(d)

\* A download has succeeded on a listing of two files and a directory.
C28_Witness ==
    /\ result = Ok
    /\ Cardinality(FilePaths) >= 2
    /\ DirectoryPaths # {}
    /\ Written = FilePaths

\* ---- C29
\* retrieve was called with an identifier that is no GUID.
InvalidIdSupplied == Retrieving /\ input.newid = "invalid"

\* The destination holds the sample the fetch operation put there.
SamplePresent ==
    IF chosen = "api" THEN FilePaths # {} /\ FilePaths \subseteq dest.entries
    ELSE IF Mode = "extract" THEN "sample" \in dest.entries
    ELSE "samples" \in dest.entries

\* C29: a retrieve given an invalid identifier never succeeds and never
\* invokes finalize; it fails with InvalidIdentifier exactly when it got as
\* far as the identity rewrite, that is only after the fetch operation has
\* succeeded (and, with overwrite, after the previous destination was
\* deleted), which leaves the fetched sample in the destination; and every
\* such call whose fetch succeeds does fail so.
C29_LateValidation ==
    InvalidIdSupplied =>
        /\ outcome # Ok
        /\ pc \notin {"finalize", "done"}
        /\ \A k \in 1..Len(calls) : calls[k].op # "finalize"
        /\ outcome = Fail("InvalidIdentifier") <=> (pc = "failed" /\ Len(calls) = 2)
        /\ outcome = Fail("InvalidIdentifier") =>
              /\ FetchSucceeded
              /\ SamplePresent
              /\ calls[2].op = "postProcess"
              /\ input.force => "existing.txt" \notin dest.entries
        /\ (FetchSucceeded /\ Returned) => outcome = Fail("InvalidIdentifier")

\* An overwriting retrieve with an invalid identifier has deleted the
\* previous destination, downloaded the sample and then failed.
C29_Witness ==
    /\ InvalidIdSupplied
    /\ input.force
    /\ input.dest0.entries = {"existing.txt"}
    /\ chosen = "api"
    /\ outcome = Fail("InvalidIdentifier")
    /\ SamplePresent
    /\ "existing.txt" \notin dest.entries

====
